---- MODULE Spec2Model ----
(***************************************************************************)
(* A model of the rendering and wire-encoding core of showme: the base64   *)
(* chunking utility, the multiplexer passthrough wrapper, the 256-colour   *)
(* quantizer, the Unicode glyph compositor with its sizing engine, the     *)
(* graphics-protocol encoders and the renderer's frame output loop.        *)
(*                                                                         *)
(* The components do not share state, so each has its own group of         *)
(* variables and its own specification; a specification leaves the other   *)
(* groups at their idle value.                                             *)
(***************************************************************************)
EXTENDS Integers, Sequences, FiniteSets, TLC

VARIABLES
    \* ---- backend/chunk_util.rs: Base64Chunks and Base64ChunkIter
    data,            \* the byte payload handed to Base64Chunks::new
    requested,       \* the requested chunk size
    encoded,         \* Base64Chunks.encoded
    chunk_size,      \* Base64Chunks.chunk_size (sanitized)
    chunk_count,     \* Base64Chunks.chunk_count
    offset,          \* Base64ChunkIter.offset
    yielded_empty,   \* Base64ChunkIter.yielded_empty
    yielded,         \* the chunks next() has returned so far, in order
    cpc,             \* position: "new", "iter", "done"
    \* ---- tmux.rs: wrap_for_tmux
    sequence,        \* the escape sequence to wrap
    result,          \* the wrapped sequence
    wpc,             \* position: "call", "done"
    \* ---- color_quantize.rs: rgb_to_256
    rgb,             \* the colour <<r, g, b>> handed to rgb_to_256
    palette_index,   \* the palette index returned
    qpc,             \* position: "call", "done"
    \* ---- backend/unicode.rs: find_best_quarter_block
    quadrants,       \* <<tl, tr, bl, br>>, each <<>> (None) or <<r, g, b>>
    best,            \* the (block, fg, bg) returned
    bpc,             \* position: "call", "done"
    \* ---- backend/*.rs: one call of Backend::render
    backend,         \* the BackendKind of the backend called
    frame,           \* the Frame: [width, height, pixels]
    options,         \* the RenderOptions
    in_multiplexer,  \* what tmux::in_multiplexer() returns
    png,             \* what PngEncoder::write_image produces: [ok, bytes]
    image_id,        \* the Kitty image id read from the clock
    native,          \* what the native sixel encoder does: [failed_at, buffer, utf8]
    scale,           \* the local scale of the call, as a fraction <<num, den>>
    scaled,          \* the local scaled / image: the pixels that are encoded
    rendered,        \* the RenderedFrame returned
    native_calls,    \* the native create and destroy calls made, in order
    native_input,    \* what encode_sixel hands to the native encoder: [width, height, data]
    upc,             \* position: "call", "done" (Ok), "error" (Err)
    \* ---- renderer.rs: one call of render_sequence or render_grid
    config,          \* the Config fields the call reads
    seq_frames,      \* sequence.frames, each frame by what backend.render returns for it
    grid,            \* config.grid: None or <<GridOptions>>
    grid_images,     \* sequences, each by its first frame's render result
    supported_kind,  \* backend.supported_kind()
    stdout,          \* what has been written to the output, in order
    frames_to_render,\* <<index of the first selected frame, number of selected frames>>
    first,           \* locals of the playback loop
    last_height,
    current_loop,
    frame_idx,       \* the loop's position in frames_to_render, from 1
    row_index,       \* the grid loop's row
    failed,          \* the frame whose render returned Err, 0 if none
    rpc,             \* position in the renderer
    \* ---- backend/mod.rs, renderer.rs: backend selection
    features,        \* the graphics features compiled in
    entry,           \* the function called: "build", "auto_from_guess", "Renderer::build"
    kind,            \* the BackendKind passed (config.backend for Renderer::build)
    guess,           \* detect_terminal_backend().backend
    stdout_tty,      \* whether atty::is(Stream::Stdout)
    quiet,           \* config.quiet
    tmux_env,        \* tmux::in_tmux()
    passthrough,     \* whether tmux passthrough was requested
    selected,        \* the result: [ok, backend]
    warned,          \* whether the fallback warning was printed
    fpc,             \* position: "call", "done"
    \* ---- backend/image_util.rs: background_rgb and blend_transparency
    bg_op,           \* the function called: "background_rgb", "blend_transparency"
    bgx, bgy,        \* background_rgb's coordinates
    bg_style,        \* the BackgroundStyle
    bg_rgb,          \* background_rgb's result
    blend_image,     \* the image handed to blend_transparency
    blend_out,       \* the image after blend_transparency
    gpc,             \* position: "call", "done"
    \* ---- renderer.rs: render_scrolling, the scroll positions
    scroll_dx,       \* config.scroll_dx, an i32
    scroll_dy,       \* config.scroll_dy, an i32
    image_cells,     \* [width, height]: rendered.width_cells and rendered.lines.len()
    viewport,        \* [width, height]: terminal.columns and terminal.rows
    overflow_checks, \* whether the build checks integer overflow (panics) or wraps
    scroll_x_range,  \* locals of render_scrolling
    scroll_y_range,
    pos_x,           \* the locals x and y
    pos_y,
    positions,       \* the local positions
    spc              \* position: "call", "positions", "animate", "written", "panic"

chunkVars == <<data, requested, encoded, chunk_size, chunk_count, offset,
               yielded_empty, yielded, cpc>>

tmuxVars == <<sequence, result, wpc>>

quantVars == <<rgb, palette_index, qpc>>
blockVars == <<quadrants, best, bpc>>
renderInputs == <<backend, frame, options, in_multiplexer, png, image_id, native>>
renderVars == <<renderInputs, scale, scaled, rendered, native_calls, native_input, upc>>
rendererInputs == <<config, seq_frames, grid, grid_images, supported_kind>>
loopVars == <<frames_to_render, first, last_height, current_loop, frame_idx>>
rendererVars == <<rendererInputs, stdout, loopVars, row_index, failed, rpc>>
factoryInputs == <<features, entry, kind, guess, stdout_tty, quiet, tmux_env>>
factoryVars == <<factoryInputs, selected, warned, passthrough, fpc>>
backgroundInputs == <<bg_op, bgx, bgy, bg_style, blend_image>>
backgroundVars == <<backgroundInputs, bg_rgb, blend_out, gpc>>

scrollInputs == <<scroll_dx, scroll_dy, image_cells, viewport, overflow_checks>>
scrollVars == <<scrollInputs, scroll_x_range, scroll_y_range, pos_x, pos_y, positions, spc>>

vars == <<chunkVars, tmuxVars, quantVars, blockVars, renderVars, rendererVars, factoryVars, backgroundVars, scrollVars>>

\* What each component's operations leave alone: the other components.
exceptChunk == <<tmuxVars, quantVars, blockVars, renderVars, rendererVars, factoryVars, backgroundVars, scrollVars>>
exceptTmux == <<chunkVars, quantVars, blockVars, renderVars, rendererVars, factoryVars, backgroundVars, scrollVars>>
exceptQuant == <<chunkVars, tmuxVars, blockVars, renderVars, rendererVars, factoryVars, backgroundVars, scrollVars>>
exceptBlock == <<chunkVars, tmuxVars, quantVars, renderVars, rendererVars, factoryVars, backgroundVars, scrollVars>>
exceptRender == <<chunkVars, tmuxVars, quantVars, blockVars, rendererVars, factoryVars, backgroundVars, scrollVars>>
exceptRenderer == <<chunkVars, tmuxVars, quantVars, blockVars, renderVars, factoryVars, backgroundVars, scrollVars>>
exceptFactory == <<chunkVars, tmuxVars, quantVars, blockVars, renderVars, rendererVars, backgroundVars, scrollVars>>
exceptBackground == <<chunkVars, tmuxVars, quantVars, blockVars, renderVars, rendererVars, factoryVars, scrollVars>>
exceptScroll == <<chunkVars, tmuxVars, quantVars, blockVars, renderVars, rendererVars, factoryVars, backgroundVars>>

\* ------------------------------------------------------------------ bounds
\* MaxCoord: the largest pixel coordinate background_rgb is called with.
\* BlendLen: the length of the pixel rows and columns blend_transparency is
\* called with.
MaxCoord == 9
BlendLen == 5

MaxPayload == 7
MaxChunkSize == 9
MaxSeqLen == 4
MaxDim == 3
MaxCells == 4
MaxFrames == 3
MaxPasses == 2
\* MaxPositions: the longest list of scroll positions the model follows.
MaxPositions == 8

\* ----------------------------------------------------------------- helpers

Min(a, b) == IF a <= b THEN a ELSE b
Max(a, b) == IF a >= b THEN a ELSE b

RECURSIVE Concat(_)
Concat(ss) == IF ss = <<>> THEN <<>> ELSE Head(ss) \o Concat(Tail(ss))

SeqsUpTo(S, n) == UNION {[1..k -> S] : k \in 0..n}

\* =========================================================================
\* backend/chunk_util.rs
\* =========================================================================

\* Payload bytes the model draws from: all bits clear and all bits set.
PayloadBytes == {0, 255}

\* The standard alphabet, indexed by 6-bit value + 1, and its padding
\* character.
Base64Alphabet ==
    <<"A", "B", "C", "D", "E", "F", "G", "H", "I", "J", "K", "L", "M", "N", "O", "P",
      "Q", "R", "S", "T", "U", "V", "W", "X", "Y", "Z", "a", "b", "c", "d", "e", "f",
      "g", "h", "i", "j", "k", "l", "m", "n", "o", "p", "q", "r", "s", "t", "u", "v",
      "w", "x", "y", "z", "0", "1", "2", "3", "4", "5", "6", "7", "8", "9", "+", "/">>

PadChar == "="

\* STANDARD.encode of one group of 1, 2 or 3 bytes: always 4 characters.
EncodeGroup(g) ==
    LET b1 == g[1]
        b2 == IF Len(g) >= 2 THEN g[2] ELSE 0
        b3 == IF Len(g) >= 3 THEN g[3] ELSE 0
        s1 == Base64Alphabet[(b1 \div 4) + 1]
        s2 == Base64Alphabet[((b1 % 4) * 16) + (b2 \div 16) + 1]
        s3 == Base64Alphabet[((b2 % 16) * 4) + (b3 \div 64) + 1]
        s4 == Base64Alphabet[(b3 % 64) + 1]
    IN  CASE Len(g) = 1 -> <<s1, s2, PadChar, PadChar>>
          [] Len(g) = 2 -> <<s1, s2, s3, PadChar>>
          [] OTHER      -> <<s1, s2, s3, s4>>

\* STANDARD.encode(data): 3-byte groups, the last one padded; character i
\* of the output is character (i - 1) % 4 + 1 of the group (i - 1) \div 4.
Base64Encode(bytes) ==
    LET n == Len(bytes)
        groups == (n + 2) \div 3
    IN  [i \in 1..(4 * groups) |->
            LET g == (i - 1) \div 4
            IN  EncodeGroup(SubSeq(bytes, 3 * g + 1, Min(3 * g + 3, n)))[((i - 1) % 4) + 1]]

\* A sanitize_chunk_size that forgets to round up to a multiple of 4.
sanitize_no_round(n) == Max(n, 4)

\* A sanitize_chunk_size that rounds down instead of up.
sanitize_round_down(n) == Max(n, 4) - (Max(n, 4) % 4)

sanitize_chunk_size(n) ==
    LET cs == Max(n, 4)
        remainder == cs % 4
    IN  IF remainder = 0 THEN cs ELSE cs + (4 - remainder)

\* A chunk count that rounds down and adds one: one too many when the
\* encoding is a whole number of chunks.
ChunkCountExtra(enc, cs) == IF enc = <<>> THEN 1 ELSE (Len(enc) \div cs) + 1

\* A chunk count that has no special case for the empty payload.
ChunkCountNoEmptyCase(enc, cs) == (Len(enc) + cs - 1) \div cs

\* Base64Chunks::new, the chunk_count expression.
ChunkCount(enc, cs) ==
    IF enc = <<>> THEN 1 ELSE (Len(enc) + cs - 1) \div cs

\* Base64ChunkIter::next called until it returns None, from offset off on.
RECURSIVE IterFrom(_, _, _)
IterFrom(enc, cs, off) ==
    IF off >= Len(enc) THEN <<>>
    ELSE LET end == Min(off + cs, Len(enc))
         IN  <<SubSeq(enc, off + 1, end)>> \o IterFrom(enc, cs, end)

\* (&chunks).into_iter() collected: the one empty chunk of an empty payload,
\* the slices of the encoding otherwise.
IterChunks(enc, cs) == IF enc = <<>> THEN <<<<>>>> ELSE IterFrom(enc, cs, 0)

ChunkInit ==
    /\ data \in SeqsUpTo(PayloadBytes, MaxPayload)
    /\ requested \in 0..MaxChunkSize
    /\ encoded = <<>>
    /\ chunk_size = 0
    /\ chunk_count = 0
    /\ offset = 0
    /\ yielded_empty = FALSE
    /\ yielded = <<>>
    /\ cpc = "new"

ChunkIdle ==
    /\ data = <<>>
    /\ requested = 0
    /\ encoded = <<>>
    /\ chunk_size = 0
    /\ chunk_count = 0
    /\ offset = 0
    /\ yielded_empty = FALSE
    /\ yielded = <<>>
    /\ cpc = "idle"

\* Base64Chunks::new followed by iter(): the iterator starts at offset 0.
Base64ChunksNew ==
    /\ cpc = "new"
    /\ UNCHANGED exceptChunk
    /\ chunk_size' = sanitize_chunk_size(requested)
    /\ encoded' = Base64Encode(data)
    /\ chunk_count' = ChunkCount(encoded', chunk_size')
    /\ offset' = 0
    /\ yielded_empty' = FALSE
    /\ yielded' = <<>>
    /\ cpc' = "iter"
    /\ UNCHANGED <<data, requested>>

\* Base64ChunkIter::next, one call.
IterNextEmptyFirst ==
    /\ cpc = "iter"
    /\ UNCHANGED exceptChunk
    /\ encoded = <<>>
    /\ ~yielded_empty
    /\ yielded_empty' = TRUE
    /\ yielded' = Append(yielded, <<>>)
    /\ UNCHANGED <<data, requested, encoded, chunk_size, chunk_count, offset, cpc>>

IterNextEmptyEnd ==
    /\ cpc = "iter"
    /\ UNCHANGED exceptChunk
    /\ encoded = <<>>
    /\ yielded_empty
    /\ cpc' = "done"
    /\ UNCHANGED <<data, requested, encoded, chunk_size, chunk_count, offset,
                   yielded_empty, yielded>>

IterNextEnd ==
    /\ cpc = "iter"
    /\ UNCHANGED exceptChunk
    /\ encoded # <<>>
    /\ offset >= Len(encoded)
    /\ cpc' = "done"
    /\ UNCHANGED <<data, requested, encoded, chunk_size, chunk_count, offset,
                   yielded_empty, yielded>>

IterNextChunk ==
    /\ cpc = "iter"
    /\ UNCHANGED exceptChunk
    /\ encoded # <<>>
    /\ offset < Len(encoded)
    /\ LET end == Min(offset + chunk_size, Len(encoded))
       IN  /\ yielded' = Append(yielded, SubSeq(encoded, offset + 1, end))
           /\ offset' = end
    /\ UNCHANGED <<data, requested, encoded, chunk_size, chunk_count,
                   yielded_empty, cpc>>

ChunkNext ==
    \/ Base64ChunksNew
    \/ IterNextEmptyFirst
    \/ IterNextEmptyEnd
    \/ IterNextEnd
    \/ IterNextChunk

\* =========================================================================
\* tmux.rs
\* =========================================================================

ESC == "ESC"
BEL == "BEL"
NL == "NL"

\* Characters the model draws sequences from: the escape character, a CSI
\* introducer, the string-terminator backslash and a plain letter.
SeqChars == {ESC, "[", "\\", "m"}

DcsPrefix == <<ESC, "P", "t", "m", "u", "x", ";">>
DcsSuffix == <<ESC, "\\">>

\* An escaping step that passes the escape character through undoubled.
EscapeCharUndoubled(ch) == <<ch>>

\* The body of wrap_for_tmux's loop: what one character contributes.
EscapeChar(ch) == IF ch = ESC THEN <<ESC, ESC>> ELSE <<ch>>

\* wrap_for_tmux's loop over sequence.chars(): the characters' contributions
\* in order (computed by halves to keep the recursion shallow).
RECURSIVE EscapeAll(_)
EscapeAll(s) ==
    IF s = <<>> THEN <<>>
    ELSE IF Len(s) = 1 THEN EscapeChar(s[1])
    ELSE LET h == Len(s) \div 2
         IN  EscapeAll(SubSeq(s, 1, h)) \o EscapeAll(SubSeq(s, h + 1, Len(s)))

\* A wrapper that returns the sequence as it is.
wrap_for_tmux_skipped(s) == s

\* wrap_for_tmux
wrap_for_tmux(s) == DcsPrefix \o EscapeAll(s) \o DcsSuffix

TmuxInit ==
    /\ sequence \in SeqsUpTo(SeqChars, MaxSeqLen)
    /\ result = <<>>
    /\ wpc = "call"

TmuxIdle ==
    /\ sequence = <<>>
    /\ result = <<>>
    /\ wpc = "idle"

WrapForTmux ==
    /\ wpc = "call"
    /\ UNCHANGED exceptTmux
    /\ result' = wrap_for_tmux(sequence)
    /\ wpc' = "done"
    /\ UNCHANGED sequence

TmuxNext == WrapForTmux

\* =========================================================================
\* color_quantize.rs
\* =========================================================================

\* Channel values the model draws from: the ends of the range, both sides of
\* every threshold of quantize_channel_to_6 and of the gray ramp, and the
\* grays 50, 128, 200, with 120 and 121 (8 and 7 below 128).
ChannelValues == {0, 3, 4, 47, 48, 50, 114, 115, 120, 121, 128, 154, 155, 194, 195, 200,
                  234, 235, 247, 248, 255}

abs_diff(a, b) == IF a >= b THEN a - b ELSE b - a

quantize_channel_to_6(value) ==
    IF value < 48 THEN 0
    ELSE IF value < 115 THEN 1
    ELSE IF value < 155 THEN 2
    ELSE IF value < 195 THEN 3
    ELSE IF value < 235 THEN 4
    ELSE 5

\* An rgb_to_256 whose cube index weights red and blue the wrong way round.
rgb_to_256_swapped(r, g, b) ==
    LET max_diff == Max(Max(abs_diff(r, g), abs_diff(r, b)), abs_diff(g, b))
        gray == (r + g + b) \div 3
    IN  IF max_diff < 8
        THEN IF gray < 4 THEN 16
             ELSE IF gray > 247 THEN 231
             ELSE 232 + Min(((gray - 4) * 24) \div 244, 23)
        ELSE 16 + 36 * quantize_channel_to_6(b) + 6 * quantize_channel_to_6(g)
                + quantize_channel_to_6(r)

\* An rgb_to_256 that takes channels up to 8 apart for a gray.
rgb_to_256_within_8(r, g, b) ==
    LET max_diff == Max(Max(abs_diff(r, g), abs_diff(r, b)), abs_diff(g, b))
        gray == (r + g + b) \div 3
    IN  IF max_diff <= 8
        THEN IF gray < 4 THEN 16
             ELSE IF gray > 247 THEN 231
             ELSE 232 + Min(((gray - 4) * 24) \div 244, 23)
        ELSE 16 + 36 * quantize_channel_to_6(r) + 6 * quantize_channel_to_6(g)
                + quantize_channel_to_6(b)

\* rgb_to_256
rgb_to_256(r, g, b) ==
    LET max_diff == Max(Max(abs_diff(r, g), abs_diff(r, b)), abs_diff(g, b))
        gray == (r + g + b) \div 3
    IN  IF max_diff < 8
        THEN IF gray < 4 THEN 16
             ELSE IF gray > 247 THEN 231
             ELSE 232 + Min(((gray - 4) * 24) \div 244, 23)
        ELSE 16 + 36 * quantize_channel_to_6(r) + 6 * quantize_channel_to_6(g)
                + quantize_channel_to_6(b)

QuantInit ==
    /\ rgb \in ChannelValues \X ChannelValues \X ChannelValues
    /\ palette_index = 0
    /\ qpc = "call"

QuantIdle ==
    /\ rgb = <<0, 0, 0>>
    /\ palette_index = 0
    /\ qpc = "idle"

RgbTo256 ==
    /\ qpc = "call"
    /\ UNCHANGED exceptQuant
    /\ palette_index' = rgb_to_256(rgb[1], rgb[2], rgb[3])
    /\ qpc' = "done"
    /\ UNCHANGED rgb

QuantNext == RgbTo256

\* =========================================================================
\* backend/unicode.rs: the quarter-block selector
\* =========================================================================

None == <<>>
IsSome(p) == p # <<>>

\* Colours the model draws unequal quadrants from: two far apart, two
\* within the similarity distance of each other, and three levels of one
\* channel whose split depends on how the distances are summed.
QuadColors ==
    {<<255, 0, 0>>, <<0, 0, 255>>, <<250, 10, 0>>,
     <<0, 0, 0>>, <<60, 0, 0>>, <<130, 0, 0>>}

\* The largest n with n * n <= x, by bisection.
RECURSIVE SqrtSearch(_, _, _)
SqrtSearch(x, lo, hi) ==
    IF lo >= hi THEN lo
    ELSE LET mid == (lo + hi + 1) \div 2
         IN  IF mid * mid <= x THEN SqrtSearch(x, mid, hi)
             ELSE SqrtSearch(x, lo, mid - 1)

ISqrt(x) == SqrtSearch(x, 0, 46340)

RECURSIVE SumChannel(_, _)
SumChannel(colors, k) ==
    IF colors = <<>> THEN 0 ELSE Head(colors)[k] + SumChannel(Tail(colors), k)

average_colors(colors) ==
    IF colors = <<>> THEN <<0, 0, 0>>
    ELSE <<SumChannel(colors, 1) \div Len(colors),
           SumChannel(colors, 2) \div Len(colors),
           SumChannel(colors, 3) \div Len(colors)>>

\* The sum of squares under color_distance's square root.
SquaredDistance(c1, c2) ==
    (c1[1] - c2[1]) * (c1[1] - c2[1]) + (c1[2] - c2[2]) * (c1[2] - c2[2])
        + (c1[3] - c2[3]) * (c1[3] - c2[3])

\* color_distance in hundredths, rounded down: the f32 square root is
\* irrational for most inputs, and the model keeps two decimal places.
color_distance(c1, c2) == ISqrt(10000 * SquaredDistance(c1, c2))

\* colors_similar: every colour closer than 30.0 to the average. The argument
\* of the square root is an integer, so sqrt(d) < 30 exactly when d < 900.
colors_similar(colors, avg) ==
    \A i \in 1..Len(colors) : SquaredDistance(colors[i], avg) < 900

\* The penalty 100.0 of a quadrant assigned to an empty set, in hundredths.
EmptySetPenalty == 10000

\* The patterns array, in its enumeration order: each glyph with the
\* quadrants (1 = tl, 2 = tr, 3 = bl, 4 = br) of its foreground and
\* background vectors.
Patterns == <<
    [block |-> "Empty",           fg |-> <<>>,           bg |-> <<1, 2, 3, 4>>],
    [block |-> "TopLeft",         fg |-> <<1>>,          bg |-> <<2, 3, 4>>],
    [block |-> "TopRight",        fg |-> <<2>>,          bg |-> <<1, 3, 4>>],
    [block |-> "BotLeft",         fg |-> <<3>>,          bg |-> <<1, 2, 4>>],
    [block |-> "BotRight",        fg |-> <<4>>,          bg |-> <<1, 2, 3>>],
    [block |-> "Top",             fg |-> <<1, 2>>,       bg |-> <<3, 4>>],
    [block |-> "Bottom",          fg |-> <<3, 4>>,       bg |-> <<1, 2>>],
    [block |-> "Left",            fg |-> <<1, 3>>,       bg |-> <<2, 4>>],
    [block |-> "Right",           fg |-> <<2, 4>>,       bg |-> <<1, 3>>],
    [block |-> "TopLeftBotRight", fg |-> <<1, 4>>,       bg |-> <<2, 3>>],
    [block |-> "TopRightBotLeft", fg |-> <<2, 3>>,       bg |-> <<1, 4>>],
    [block |-> "Full",            fg |-> <<1, 2, 3, 4>>, bg |-> <<>>] >>

\* The matches! tables of the error loop: whether quadrant i should take the
\* foreground colour under the glyph.
ShouldBeFg(block, i) ==
    CASE i = 1 -> block \in {"TopLeft", "Top", "Left", "TopLeftBotRight", "Full"}
      [] i = 2 -> block \in {"TopRight", "Top", "Right", "TopRightBotLeft", "Full"}
      [] i = 3 -> block \in {"BotLeft", "Bottom", "Left", "TopRightBotLeft", "Full"}
      [] i = 4 -> block \in {"BotRight", "Bottom", "Right", "TopLeftBotRight", "Full"}

\* filter_map(|&p| p): the colours present among the quadrants idx names.
RECURSIVE PresentColors(_, _)
PresentColors(quad, idx) ==
    IF idx = <<>> THEN <<>>
    ELSE IF IsSome(quad[Head(idx)])
         THEN <<quad[Head(idx)]>> \o PresentColors(quad, Tail(idx))
         ELSE PresentColors(quad, Tail(idx))

OptionAverage(colors) == IF colors = <<>> THEN None ELSE average_colors(colors)

\* The error of one pattern: distance of every present quadrant to the
\* average of its set, or the penalty when that set is empty.
RECURSIVE PatternError(_, _, _, _, _)
PatternError(quad, block, fg_avg, bg_avg, i) ==
    IF i > 4 THEN 0
    ELSE (IF IsSome(quad[i])
          THEN LET target == IF ShouldBeFg(block, i) THEN fg_avg ELSE bg_avg
               IN  IF IsSome(target) THEN color_distance(quad[i], target)
                   ELSE EmptySetPenalty
          ELSE 0)
         + PatternError(quad, block, fg_avg, bg_avg, i + 1)

\* f32::MAX, as a value above every error the loop can compute.
ErrorMax == 1000000

\* The loop with "error <= best_error": among equal errors the last wins.
RECURSIVE TryPatternsLastWins(_, _, _)
TryPatternsLastWins(quad, k, cur) ==
    IF k > Len(Patterns) THEN cur
    ELSE LET pat == Patterns[k]
             fg_colors == PresentColors(quad, pat.fg)
             bg_colors == PresentColors(quad, pat.bg)
             fg_avg == OptionAverage(fg_colors)
             bg_avg == OptionAverage(bg_colors)
             error == PatternError(quad, pat.block, fg_avg, bg_avg, 1)
         IN  IF fg_colors = <<>> /\ pat.block # "Empty"
             THEN TryPatternsLastWins(quad, k + 1, cur)
             ELSE IF error <= cur.error
                  THEN TryPatternsLastWins(quad, k + 1,
                           [block |-> pat.block, fg |-> fg_avg, bg |-> bg_avg,
                            error |-> error])
                  ELSE TryPatternsLastWins(quad, k + 1, cur)

\* The loop over the patterns from index k on; cur is (best_block, best_fg,
\* best_bg, best_error) so far.
RECURSIVE TryPatterns(_, _, _)
TryPatterns(quad, k, cur) ==
    IF k > Len(Patterns) THEN cur
    ELSE LET pat == Patterns[k]
             fg_colors == PresentColors(quad, pat.fg)
             bg_colors == PresentColors(quad, pat.bg)
             fg_avg == OptionAverage(fg_colors)
             bg_avg == OptionAverage(bg_colors)
             error == PatternError(quad, pat.block, fg_avg, bg_avg, 1)
         IN  IF fg_colors = <<>> /\ pat.block # "Empty"
             THEN TryPatterns(quad, k + 1, cur)
             ELSE IF error < cur.error
                  THEN TryPatterns(quad, k + 1,
                           [block |-> pat.block, fg |-> fg_avg, bg |-> bg_avg,
                            error |-> error])
                  ELSE TryPatterns(quad, k + 1, cur)

\* A selector without the all-similar shortcut.
find_best_no_shortcut(tl, tr, bl, br) ==
    LET quad == <<tl, tr, bl, br>>
        count == Cardinality({i \in 1..4 : IsSome(quad[i])})
        found == TryPatterns(quad, 1,
                     [block |-> "Empty", fg |-> None, bg |-> None, error |-> ErrorMax])
    IN  IF count = 0 THEN [block |-> "Empty", fg |-> None, bg |-> None]
        ELSE [block |-> found.block, fg |-> found.fg, bg |-> found.bg]

find_best_quarter_block(tl, tr, bl, br) ==
    LET quad == <<tl, tr, bl, br>>
        count == Cardinality({i \in 1..4 : IsSome(quad[i])})
        avg == average_colors(quad)
        found == TryPatterns(quad, 1,
                     [block |-> "Empty", fg |-> None, bg |-> None, error |-> ErrorMax])
    IN  IF count = 0 THEN [block |-> "Empty", fg |-> None, bg |-> None]
        ELSE IF count = 4 /\ colors_similar(quad, avg)
             THEN [block |-> "Full", fg |-> avg, bg |-> None]
             ELSE [block |-> found.block, fg |-> found.fg, bg |-> found.bg]

UniformQuadrants(c) == <<c, c, c, c>>

BlockInit ==
    /\ \/ quadrants \in {UniformQuadrants(c) :
                            c \in ChannelValues \X ChannelValues \X ChannelValues}
       \/ quadrants \in [1..4 -> QuadColors \cup {None}]
    /\ best = [block |-> "Empty", fg |-> None, bg |-> None]
    /\ bpc = "call"

BlockIdle ==
    /\ quadrants = <<None, None, None, None>>
    /\ best = [block |-> "Empty", fg |-> None, bg |-> None]
    /\ bpc = "idle"

FindBestQuarterBlock ==
    /\ bpc = "call"
    /\ UNCHANGED exceptBlock
    /\ best' = find_best_quarter_block(quadrants[1], quadrants[2],
                                       quadrants[3], quadrants[4])
    /\ bpc' = "done"
    /\ UNCHANGED quadrants

BlockNext == FindBestQuarterBlock

\* =========================================================================
\* backend/image_util.rs: the background compositor
\* =========================================================================

\* A checkerboard that alternates along x only.
checkerboard_columns(x, y, pattern_size) ==
    LET size == Max(pattern_size, 1)
        tile == Max(size * 4, 1)
    IN  (x \div tile) % 2 = 0

\* checkerboard(x, y, pattern_size)
checkerboard(x, y, pattern_size) ==
    LET size == Max(pattern_size, 1)
        tile == Max(size * 4, 1)
    IN  ((x \div tile) + (y \div tile)) % 2 = 0

\* background_rgb(x, y, background): None, or the colour behind (x, y).
background_rgb(x, y, background) ==
    CASE background.color = None /\ background.pattern = None -> None
      [] background.color # None /\ background.pattern = None -> background.color
      [] background.color = None /\ background.pattern # None -> background.pattern
      [] OTHER -> IF checkerboard(x, y, background.pattern_size)
                  THEN background.pattern
                  ELSE background.color

\* =========================================================================
\* backend/unicode.rs: the sizing engine and the glyph compositor
\* =========================================================================

\* Fractions <<num, den>> with den > 0 stand for the f32 scale factors: for
\* the sizes of the model the f32 quotients and products round to the same
\* pixel counts as the exact fractions.
FracLe(a, b) == a[1] * b[2] <= b[1] * a[2]
FracMin(a, b) == IF FracLe(a, b) THEN a ELSE b
FracOne == <<1, 1>>

\* (v as f32 * f).round() as u32: halves round away from zero.
RoundMul(v, f) == (2 * v * f[1] + f[2]) \div (2 * f[2])

\* An image of one colour.
UniformPixels(w, h, px) == [c \in (0..(w - 1)) \X (0..(h - 1)) |-> px]

IsUniform(img) ==
    \A c1, c2 \in DOMAIN img.pixels : img.pixels[c1] = img.pixels[c2]

OpaqueRed == <<255, 0, 0, 255>>

\* Pixel values the model draws frames from: opaque, at the transparency
\* threshold (alpha 16) and just below it (alpha 15).
CellPixels == {OpaqueRed, <<0, 255, 0, 16>>, <<0, 0, 255, 15>>}

\* resize(&frame.pixels, w, h, FilterType::Triangle) is the image crate's: a
\* one-colour image stays that colour; of any other image the model lets
\* every resampled pixel be any of the draw values.
ResizeResults(img, w, h) ==
    IF IsUniform(img)
    THEN {[width |-> w, height |-> h,
           pixels |-> UniformPixels(w, h, img.pixels[<<0, 0>>])]}
    ELSE {[width |-> w, height |-> h, pixels |-> f] :
             f \in [(0..(w - 1)) \X (0..(h - 1)) -> CellPixels]}

\* The scaled image: the frame's own pixels when the target size is the
\* frame's size, a resized image otherwise.
ScaledResults(img, w, h) ==
    IF w = img.width /\ h = img.height THEN {img} ELSE ResizeResults(img, w, h)

\* max_width_cells of both render functions.
MaxWidthCells(f, opt) ==
    LET requested_cells == IF opt.sizing.width_cells = None
                           THEN Min(f.width, opt.terminal.columns)
                           ELSE opt.sizing.width_cells[1]
    IN  Min(Max(requested_cells, 1), opt.terminal.columns)

\* max_height_pixels of both render functions (saturating_mul does not
\* saturate at the sizes of the model).
MaxHeightPixels(f, opt) ==
    IF opt.sizing.height_cells = None
    THEN Min(f.height, Max(opt.terminal.rows * 2, 1))
    ELSE opt.sizing.height_cells[1] * 2

\* scale of both render functions; width_budget is max_width_cells in
\* half-block mode and max_width_cells * 2 in quarter-block mode.
UnicodeScale(f, opt, width_budget) ==
    LET sw0 == <<width_budget, f.width>>
        sh0 == <<MaxHeightPixels(f, opt), f.height>>
        sw == IF ~opt.sizing.upscale THEN FracMin(sw0, FracOne) ELSE sw0
        sh == IF ~opt.sizing.upscale THEN FracMin(sh0, FracOne) ELSE sh0
    IN  IF opt.sizing.fit_width THEN sw ELSE FracMin(sw, sh)

\* A half-block target size whose height is left as the scale gives it.
HalfTargetUnpadded(f, opt) ==
    LET budget == MaxWidthCells(f, opt)
        sc == UnicodeScale(f, opt, budget)
        base_width == RoundMul(f.width, sc)
        base_height == RoundMul(f.height, sc)
        stretched_width == RoundMul(base_width, opt.sizing.width_stretch)
        w0 == Min(stretched_width, budget)
        w1 == IF w0 = 0 THEN 1 ELSE w0
        h1 == IF base_height = 0 THEN 1 ELSE base_height
    IN  [scale |-> sc, width |-> w1, height |-> h1]

\* render_half_blocks, the target size: [scale, width, height].
HalfTarget(f, opt) ==
    LET budget == MaxWidthCells(f, opt)
        sc == UnicodeScale(f, opt, budget)
        base_width == RoundMul(f.width, sc)
        base_height == RoundMul(f.height, sc)
        stretched_width == RoundMul(base_width, opt.sizing.width_stretch)
        w0 == Min(stretched_width, budget)
        w1 == IF w0 = 0 THEN 1 ELSE w0
        h1 == IF base_height = 0 THEN 1 ELSE base_height
        h2 == IF h1 % 2 # 0 THEN h1 + 1 ELSE h1
    IN  [scale |-> sc, width |-> w1, height |-> h2]

\* render_quarter_blocks, the target size: [scale, width, height].
QuarterTarget(f, opt) ==
    LET budget == MaxWidthCells(f, opt) * 2
        sc == UnicodeScale(f, opt, budget)
        base_width == RoundMul(f.width, sc)
        base_height == RoundMul(f.height, sc)
        stretched_width == RoundMul(base_width, opt.sizing.width_stretch)
        w0 == Min(stretched_width, budget)
        w1 == IF w0 = 0 THEN 2 ELSE w0
        h1 == IF base_height = 0 THEN 2 ELSE base_height
        w2 == IF w1 % 2 # 0 THEN w1 + 1 ELSE w1
        h2 == IF h1 % 2 # 0 THEN h1 + 1 ELSE h1
    IN  [scale |-> sc, width |-> w2, height |-> h2]

\* The escape sequences, as token sequences.
FullReset == <<ESC, "[0m">>
BgReset == <<ESC, "[49m">>
UpperHalfBlock == "UPPER HALF BLOCK"
LowerHalfBlock == "LOWER HALF BLOCK"

push_fg(c, use_8bit) ==
    IF use_8bit
    THEN <<ESC, "[38;5;", ToString(rgb_to_256(c[1], c[2], c[3])), "m">>
    ELSE <<ESC, "[38;2;", ToString(c[1]), ";", ToString(c[2]), ";", ToString(c[3]), "m">>

push_bg(c, use_8bit) ==
    IF use_8bit
    THEN <<ESC, "[48;5;", ToString(rgb_to_256(c[1], c[2], c[3])), "m">>
    ELSE <<ESC, "[48;2;", ToString(c[1]), ";", ToString(c[2]), ";", ToString(c[3]), "m">>

\* A resolve_color with the threshold one too high: alpha 16 is transparent.
resolve_color_strict(pixel, x, y, background) ==
    IF pixel[4] > 16 THEN <<pixel[1], pixel[2], pixel[3]>>
    ELSE background_rgb(x, y, background)

resolve_color(pixel, x, y, background) ==
    IF pixel[4] >= 16 THEN <<pixel[1], pixel[2], pixel[3]>>
    ELSE background_rgb(x, y, background)

\* append_half_block: what one cell appends to the line.
append_half_block(top_px, bottom_px, x, y, background, use_8bit) ==
    LET top == resolve_color(top_px, x, y, background)
        bottom == resolve_color(bottom_px, x, y + 1, background)
    IN  CASE top = None /\ bottom = None -> FullReset \o <<" ">>
          [] top # None /\ bottom # None ->
                push_fg(top, use_8bit) \o push_bg(bottom, use_8bit) \o <<UpperHalfBlock>>
          [] top # None /\ bottom = None ->
                push_fg(top, use_8bit) \o BgReset \o <<UpperHalfBlock>>
          [] OTHER ->
                push_fg(bottom, use_8bit) \o BgReset \o <<LowerHalfBlock>>

\* QuarterBlock::to_char
to_char(block) ==
    CASE block = "Empty" -> " "
      [] block = "TopLeft" -> "QUADRANT UPPER LEFT"
      [] block = "TopRight" -> "QUADRANT UPPER RIGHT"
      [] block = "BotLeft" -> "QUADRANT LOWER LEFT"
      [] block = "BotRight" -> "QUADRANT LOWER RIGHT"
      [] block = "Top" -> UpperHalfBlock
      [] block = "Bottom" -> LowerHalfBlock
      [] block = "Left" -> "LEFT HALF BLOCK"
      [] block = "Right" -> "RIGHT HALF BLOCK"
      [] block = "TopLeftBotRight" -> "QUADRANT UPPER LEFT AND LOWER RIGHT"
      [] block = "TopRightBotLeft" -> "QUADRANT UPPER RIGHT AND LOWER LEFT"
      [] block = "Full" -> "FULL BLOCK"

\* append_quarter_block: what one cell appends to the line.
append_quarter_block(tl_px, tr_px, bl_px, br_px, x, y, background, use_8bit) ==
    LET tl == resolve_color(tl_px, x, y, background)
        tr == resolve_color(tr_px, x + 1, y, background)
        bl == resolve_color(bl_px, x, y + 1, background)
        br == resolve_color(br_px, x + 1, y + 1, background)
        found == find_best_quarter_block(tl, tr, bl, br)
    IN  IF tl = None /\ tr = None /\ bl = None /\ br = None
        THEN FullReset \o <<" ">>
        ELSE (IF found.fg # None THEN push_fg(found.fg, use_8bit) ELSE <<>>)
             \o (IF found.bg # None THEN push_bg(found.bg, use_8bit) ELSE BgReset)
             \o <<to_char(found.block)>>

TransparentBlack == <<0, 0, 0, 0>>

\* The inner loop of render_half_blocks: the cells of row y from column x on.
RECURSIVE HalfRowCells(_, _, _, _)
HalfRowCells(img, opt, x, y) ==
    IF x >= img.width THEN <<>>
    ELSE LET top == img.pixels[<<x, y>>]
             bottom == IF y + 1 < img.height THEN img.pixels[<<x, y + 1>>]
                       ELSE TransparentBlack
         IN  append_half_block(top, bottom, x, y, opt.background, opt.use_8bit_color)
                 \o HalfRowCells(img, opt, x + 1, y)

\* The outer loop of render_half_blocks: the lines from pixel row y on.
RECURSIVE HalfLines(_, _, _)
HalfLines(img, opt, y) ==
    IF y >= img.height THEN <<>>
    ELSE <<HalfRowCells(img, opt, 0, y) \o FullReset>> \o HalfLines(img, opt, y + 2)

\* The inner loop of render_quarter_blocks.
RECURSIVE QuarterRowCells(_, _, _, _)
QuarterRowCells(img, opt, x, y) ==
    IF x >= img.width THEN <<>>
    ELSE LET tl == img.pixels[<<x, y>>]
             tr == IF x + 1 < img.width THEN img.pixels[<<x + 1, y>>] ELSE tl
             bl == IF y + 1 < img.height THEN img.pixels[<<x, y + 1>>] ELSE tl
             br == IF x + 1 < img.width /\ y + 1 < img.height
                   THEN img.pixels[<<x + 1, y + 1>>] ELSE tl
         IN  append_quarter_block(tl, tr, bl, br, x, y, opt.background,
                                  opt.use_8bit_color)
                 \o QuarterRowCells(img, opt, x + 2, y)

\* The outer loop of render_quarter_blocks.
RECURSIVE QuarterLines(_, _, _)
QuarterLines(img, opt, y) ==
    IF y >= img.height THEN <<>>
    ELSE <<QuarterRowCells(img, opt, 0, y) \o FullReset>>
             \o QuarterLines(img, opt, y + 2)

NoBackground == [color |-> None, pattern |-> None, pattern_size |-> 1]

\* Background styles the model draws from: none, solid, pattern, both.
BackgroundStyles ==
    {NoBackground,
     [color |-> <<255, 255, 255>>, pattern |-> None, pattern_size |-> 1],
     [color |-> None, pattern |-> <<128, 128, 128>>, pattern_size |-> 1],
     [color |-> <<255, 255, 255>>, pattern |-> <<128, 128, 128>>, pattern_size |-> 1]}

\* Frame sides and terminal sizes the model draws from.
CellDims == {1, 2}
TermColumns == {1, 3}
TermRows == {1, 2}

\* Option<u32> cell limits: None or Some(n), n from 0 up.
CellLimits == {None} \cup {<<n>> : n \in 0..MaxCells}

\* width_stretch values: 0.5, 1.0 and 2.0.
Stretches == {<<1, 2>>, <<1, 1>>, <<2, 1>>}

Unconstrained ==
    [width_cells |-> None, height_cells |-> None, fit_width |-> FALSE,
     fit_height |-> FALSE, upscale |-> FALSE, upscale_integer |-> FALSE,
     width_stretch |-> <<1, 1>>]

Sizings ==
    [width_cells : CellLimits, height_cells : CellLimits, fit_width : BOOLEAN,
     fit_height : BOOLEAN, upscale : BOOLEAN, upscale_integer : BOOLEAN,
     width_stretch : Stretches]

NoImage == [width |-> 0, height |-> 0, pixels |-> <<>>]
NoNativeInput == [width |-> 0, height |-> 0, data |-> <<>>]
NoRendered == [lines |-> <<>>, width_cells |-> 0, height_cells |-> 0]

\* The inputs only the graphics encoders read, when no such encoder runs.
NoPng == [ok |-> FALSE, bytes |-> <<>>]
NoNative == [failed_at |-> "none", buffer |-> <<>>, utf8 |-> TRUE]

UnicodeInputs ==
    /\ backend = "Unicode"
    /\ in_multiplexer = FALSE
    /\ png = NoPng
    /\ image_id = 0
    /\ native = NoNative

RenderStart ==
    /\ scale = <<0, 1>>
    /\ scaled = NoImage
    /\ rendered = NoRendered
    /\ native_calls = <<>>
    /\ native_input = NoNativeInput
    /\ upc = "call"

\* Sizing runs: every frame size and sizing policy, one-colour opaque frames.
SizingInit ==
    /\ UnicodeInputs
    /\ \E w, h \in 1..MaxDim :
          frame = [width |-> w, height |-> h, pixels |-> UniformPixels(w, h, OpaqueRed)]
    /\ \E sz \in Sizings, cols \in TermColumns, rws \in TermRows, pix \in {"Half", "Quarter"} :
          options = [sizing |-> sz, terminal |-> [columns |-> cols, rows |-> rws],
                     background |-> NoBackground, pixelation |-> pix,
                     use_8bit_color |-> FALSE]
    /\ RenderStart

\* Compositing runs: every frame of up to 2x2 draw values, every background
\* style and colour depth, under the unconstrained policy or a width of 1.
CellsInit ==
    /\ UnicodeInputs
    /\ \E w, h \in CellDims :
          \E px \in [(0..(w - 1)) \X (0..(h - 1)) -> CellPixels] :
             frame = [width |-> w, height |-> h, pixels |-> px]
    /\ \E wc \in {None, <<1>>}, bgs \in BackgroundStyles,
          pix \in {"Half", "Quarter"}, eight \in BOOLEAN :
          options = [sizing |-> [Unconstrained EXCEPT !.width_cells = wc],
                     terminal |-> [columns |-> 2, rows |-> 1],
                     background |-> bgs, pixelation |-> pix,
                     use_8bit_color |-> eight]
    /\ RenderStart

RenderIdle ==
    /\ UnicodeInputs
    /\ frame = NoImage
    /\ options = [sizing |-> Unconstrained, terminal |-> [columns |-> 1, rows |-> 1],
                  background |-> NoBackground, pixelation |-> "Half",
                  use_8bit_color |-> FALSE]
    /\ scale = <<0, 1>>
    /\ scaled = NoImage
    /\ rendered = NoRendered
    /\ native_calls = <<>>
    /\ native_input = NoNativeInput
    /\ upc = "idle"

\* UnicodeBackend::render with PixelationMode::Half
RenderHalfBlocks ==
    /\ upc = "call"
    /\ UNCHANGED exceptRender
    /\ backend = "Unicode"
    /\ options.pixelation = "Half"
    /\ LET target == HalfTarget(frame, options)
       IN  /\ scale' = target.scale
           /\ scaled' \in ScaledResults(frame, target.width, target.height)
           /\ rendered' = [lines |-> HalfLines(scaled', options, 0),
                           width_cells |-> target.width,
                           height_cells |-> target.height \div 2]
    /\ upc' = "done"
    /\ UNCHANGED <<renderInputs, native_calls, native_input>>

\* UnicodeBackend::render with PixelationMode::Quarter
RenderQuarterBlocks ==
    /\ upc = "call"
    /\ UNCHANGED exceptRender
    /\ backend = "Unicode"
    /\ options.pixelation = "Quarter"
    /\ LET target == QuarterTarget(frame, options)
       IN  /\ scale' = target.scale
           /\ scaled' \in ScaledResults(frame, target.width, target.height)
           /\ rendered' = [lines |-> QuarterLines(scaled', options, 0),
                           width_cells |-> target.width \div 2,
                           height_cells |-> target.height \div 2]
    /\ upc' = "done"
    /\ UNCHANGED <<renderInputs, native_calls, native_input>>

\* =========================================================================
\* backend/image_util.rs, kitty.rs, iterm2.rs, sixel.rs: the graphics encoders
\* =========================================================================

\* A blend that keeps the pixel's alpha.
BlendPixelKeepingAlpha(px, x, y, background) ==
    LET bg == background_rgb(x, y, background)
        ch(i) == (2 * (px[i] * px[4] + bg[i] * (255 - px[4])) + 255) \div 510
    IN  IF px[4] >= 255 \/ bg = None THEN px
        ELSE <<Min(ch(1), 255), Min(ch(2), 255), Min(ch(3), 255), px[4]>>

\* blend_transparency, one pixel: fg * alpha + bg * (1 - alpha), rounded (the
\* quotient by 255 is never half-way between two integers).
BlendPixel(px, x, y, background) ==
    LET bg == background_rgb(x, y, background)
        ch(i) == (2 * (px[i] * px[4] + bg[i] * (255 - px[4])) + 255) \div 510
    IN  IF px[4] >= 255 \/ bg = None THEN px
        ELSE <<Min(ch(1), 255), Min(ch(2), 255), Min(ch(3), 255), 255>>

blend_transparency(img, background) ==
    IF background.color = None /\ background.pattern = None THEN img
    ELSE [img EXCEPT !.pixels =
             [c \in DOMAIN img.pixels |-> BlendPixel(img.pixels[c], c[1], c[2], background)]]

\* scale_frame: [scale, width, height, width_cells, height_cells].
scale_frame(f, opt) ==
    LET max_width_cells ==
            Min(Max(IF opt.sizing.width_cells = None
                    THEN Min(f.width, opt.terminal.columns)
                    ELSE opt.sizing.width_cells[1], 1), opt.terminal.columns)
        max_height_cells ==
            Min(Max(IF opt.sizing.height_cells = None
                    THEN Min(f.height, opt.terminal.rows)
                    ELSE opt.sizing.height_cells[1], 1), opt.terminal.rows)
        scale_width == <<max_width_cells, f.width>>
        scale_height == <<max_height_cells, f.height>>
        s0 == IF opt.sizing.fit_width THEN scale_width
              ELSE IF opt.sizing.fit_height THEN scale_height
              ELSE FracMin(scale_width, scale_height)
        s1 == IF s0[1] > s0[2] /\ ~opt.sizing.upscale THEN FracOne ELSE s0
        s2 == IF opt.sizing.upscale_integer /\ s1[1] > s1[2]
              THEN <<Max(s1[1] \div s1[2], 1), 1>> ELSE s1
        w0 == RoundMul(f.width, s2)
        h0 == RoundMul(f.height, s2)
        target_width == IF w0 = 0 THEN 1 ELSE w0
        target_height == IF h0 = 0 THEN 1 ELSE h0
    IN  [scale |-> s2, width |-> target_width, height |-> target_height,
         width_cells |-> Min(Max(target_width, 1), max_width_cells),
         height_cells |-> Min(Max(target_height, 1), max_height_cells)]

KITTY_BASE64_CHUNK == 3072
ITERM2_BASE64_CHUNK == 4096

\* params.join(","): the parameters, each a token sequence, comma separated.
RECURSIVE JoinParams(_)
JoinParams(params) ==
    IF params = <<>> THEN <<>>
    ELSE IF Len(params) = 1 THEN params[1]
    ELSE params[1] \o <<",">> \o JoinParams(Tail(params))

\* A line terminator of build_chunks that forgets the string terminator.
KittyTerminatorMissing == <<>>

\* The string terminator ESC \ pushed after the chunk.
KittyTerminator == <<ESC, "\\">>

\* KittyBackend::build_chunks
\* A 'more' flag that is set on every chunk.
KittyMoreAlways(idx, total) == TRUE

\* more of KittyBackend::build_chunks: a chunk follows this one.
KittyMore(idx, total) == idx + 1 < total

\* KittyBackend::build_chunks
KittyBuildChunks(bytes, width_cells, height_cells, pixel_width, pixel_height, id, in_tmux) ==
    LET cs == sanitize_chunk_size(KITTY_BASE64_CHUNK)
        enc == Base64Encode(bytes)
        total == ChunkCount(enc, cs)
        chunks == IterChunks(enc, cs)
        metadata == <<<<"a=T">>, <<"f=100">>, <<"q=2">>, <<"i=", ToString(id)>>,
                   <<"s=", ToString(pixel_width)>>, <<"v=", ToString(pixel_height)>>,
                   <<"c=", ToString(Max(width_cells, 1))>>,
                   <<"r=", ToString(Max(height_cells, 1))>>>>
        line(idx) ==
            LET more == KittyMore(idx, total)
                params == (IF idx = 0 THEN metadata ELSE <<>>)
                              \o (IF more THEN <<<<"m=1">>>> ELSE <<>>)
                framed == <<ESC, "_G">> \o JoinParams(params) \o <<";">>
                              \o chunks[idx + 1] \o KittyTerminator
            IN  IF in_tmux THEN wrap_for_tmux(framed) ELSE framed
    IN  [k \in 1..Len(chunks) |-> line(k - 1)]

\* A 'more' flag that is set on the chunks after the first.
Iterm2MoreAfterFirst(idx, total) == idx > 0

\* more of ITerm2Backend::build_chunks: a chunk follows this one.
Iterm2More(idx, total) == idx + 1 < total

\* ITerm2Backend::build_chunks
Iterm2BuildChunks(bytes, width_cells, height_cells, in_tmux) ==
    LET cs == sanitize_chunk_size(ITERM2_BASE64_CHUNK)
        enc == Base64Encode(bytes)
        total == ChunkCount(enc, cs)
        chunks == IterChunks(enc, cs)
        line(idx) ==
            LET more == Iterm2More(idx, total)
                framed == <<ESC, "]1337;File=">>
                              \o (IF idx = 0
                                  THEN <<"inline=1;size=", ToString(Len(bytes)),
                                         ";width=", ToString(Max(width_cells, 1)),
                                         ";height=", ToString(Max(height_cells, 1)),
                                         ";preserveAspectRatio=1">>
                                  ELSE <<"inline=1">>)
                              \o (IF more THEN <<";m=1">> ELSE <<>>)
                              \o <<":">> \o chunks[idx + 1] \o <<BEL>>
            IN  IF in_tmux THEN wrap_for_tmux(framed) ELSE framed
    IN  [k \in 1..Len(chunks) |-> line(k - 1)]

\* A cell allocation that takes the height-derived candidate whenever the
\* width-derived one does not reach the width budget.
Iterm2CellsHeightFirst(f, opt) ==
    LET max_width_cells ==
            Min(IF opt.sizing.width_cells = None THEN opt.terminal.columns
                ELSE opt.sizing.width_cells[1], opt.terminal.columns)
        max_height_cells ==
            Min(IF opt.sizing.height_cells = None THEN opt.terminal.rows
                ELSE opt.sizing.height_cells[1], opt.terminal.rows)
        width_if_height_limited == (2 * max_height_cells * f.width) \div f.height
        height_if_width_limited == (max_width_cells * f.height) \div (2 * f.width)
    IN  IF opt.sizing.width_cells # None /\ opt.sizing.height_cells # None
        THEN <<max_width_cells, max_height_cells>>
        ELSE IF width_if_height_limited >= max_width_cells
        THEN <<Max(width_if_height_limited, 1), max_height_cells>>
        ELSE <<max_width_cells, Max(height_if_width_limited, 1)>>

\* ITerm2Backend::render, the cell allocation <<width_cells, height_cells>>
\* (for frame sides below 9 the f64 products truncate to these quotients).
Iterm2Cells(f, opt) ==
    LET max_width_cells ==
            Min(IF opt.sizing.width_cells = None THEN opt.terminal.columns
                ELSE opt.sizing.width_cells[1], opt.terminal.columns)
        max_height_cells ==
            Min(IF opt.sizing.height_cells = None THEN opt.terminal.rows
                ELSE opt.sizing.height_cells[1], opt.terminal.rows)
        width_if_height_limited == (2 * max_height_cells * f.width) \div f.height
        height_if_width_limited == (max_width_cells * f.height) \div (2 * f.width)
    IN  IF opt.sizing.width_cells # None /\ opt.sizing.height_cells # None
        THEN <<max_width_cells, max_height_cells>>
        ELSE IF width_if_height_limited <= max_width_cells
        THEN <<Max(width_if_height_limited, 1), max_height_cells>>
        ELSE <<max_width_cells, Max(height_if_width_limited, 1)>>

\* What the native encoder may leave in the buffer: nothing, a sixel
\* sequence, or a sixel sequence that already ends with a newline.
SixelSequence == <<ESC, "Pq", "#0;2;100;0;0", "#0~", "-", ESC, "\\">>
SixelBuffers == {<<>>, SixelSequence, SixelSequence \o <<NL>>}

\* The native calls that return a status: sixel_output_new, sixel_dither_new,
\* sixel_dither_initialize, sixel_encode.
SixelCalls ==
    {"sixel_output_new", "sixel_dither_new", "sixel_dither_initialize", "sixel_encode"}

\* image.into_raw(): the RGBA bytes, row by row.
into_raw(img) ==
    [i \in 1..(img.width * img.height * 4) |->
        LET p == (i - 1) \div 4
        IN  img.pixels[<<p % img.width, p \div img.width>>][((i - 1) % 4) + 1]]

\* A padding that always appends a full group of filler rows.
add_rows_always(height) == 6 - (height % 6)

\* add_rows of encode_sixel: the rows missing to the next multiple of 6.
add_rows(height) == IF height % 6 # 0 THEN 6 - (height % 6) ELSE 0

\* encode_sixel, the padding: what the native encoder is given.
SixelPadded(img) ==
    [width |-> img.width,
     height |-> img.height + add_rows(img.height),
     data |-> into_raw(img) \o [i \in 1..(add_rows(img.height) * img.width * 4) |-> 0]]

\* The native resources sixel_output_new and sixel_dither_new have created
\* when the call named failed_at returns a non-zero status ("none": no call
\* fails), in creation order.
SixelCreated(failed_at) ==
    (IF failed_at = "sixel_output_new" THEN <<>> ELSE <<"sixel_output_new">>)
        \o (IF failed_at \in {"sixel_output_new", "sixel_dither_new"}
            THEN <<>> ELSE <<"sixel_dither_new">>)

\* The guards encode_sixel has constructed when it leaves its unsafe block:
\* OutputGuard follows the check of sixel_output_new, DitherGuard the check of
\* sixel_dither_new; the ? of a failed check returns before the next guard.
SixelGuards(failed_at) ==
    CASE failed_at = "sixel_output_new" -> <<>>
      [] failed_at = "sixel_dither_new" -> <<"OutputGuard">>
      [] OTHER -> <<"OutputGuard", "DitherGuard">>

\* Drop::drop of a guard: the destroy call of its resource.
DropCall(guard) ==
    IF guard = "OutputGuard" THEN "sixel_output_destroy" ELSE "sixel_dither_destroy"

\* Guards dropped in the order of their declaration.
DropGuardsInOrder(guards) == [i \in 1..Len(guards) |-> DropCall(guards[i])]

\* Locals are dropped in reverse order of declaration at scope exit.
DropGuards(guards) == [i \in 1..Len(guards) |-> DropCall(guards[Len(guards) + 1 - i])]

\* encode_sixel after the native calls: from_utf8, then the trailing newline.
SixelText(buffer) ==
    IF buffer # <<>> /\ buffer[Len(buffer)] = NL THEN buffer ELSE buffer \o <<NL>>

\* Byte strings the PNG encoder's output is drawn from: short ones, and ones
\* around the byte counts (2304 and 3072) that fill one base64 chunk.
ShortPngLengths == {1, 2, 3}
LongPngLengths == {2304, 2305, 3072, 3073}
PngPayloads ==
    {[i \in 1..n |-> b] : n \in ShortPngLengths, b \in PayloadBytes}
        \cup {[i \in 1..n |-> 0] : n \in LongPngLengths}
PngResults == {NoPng} \cup {[ok |-> TRUE, bytes |-> d] : d \in PngPayloads}

ImageIds == {1, 1700000000}

\* What the native encoder does: every call succeeds and the buffer holds
\* valid or invalid UTF-8, or the call failed_at fails.
NativeResults ==
    {[failed_at |-> "none", buffer |-> b, utf8 |-> u] : b \in SixelBuffers, u \in BOOLEAN}
        \cup {[failed_at |-> k, buffer |-> <<>>, utf8 |-> TRUE] : k \in SixelCalls}

\* Encoder runs: frames of one colour, opaque or below the transparency
\* threshold.
EncoderFrames ==
    {[width |-> w, height |-> h, pixels |-> UniformPixels(w, h, px)] :
        w \in CellDims, h \in CellDims, px \in {OpaqueRed, <<0, 0, 255, 15>>}}

EncoderBackgrounds ==
    {NoBackground, [color |-> <<255, 255, 255>>, pattern |-> None, pattern_size |-> 1]}

\* Runs of every backend: the Kitty and iTerm2 encoders on every PNG result
\* with and without a multiplexer, the sixel encoder on every native result
\* and sizing policy, the Unicode compositor in both modes.
BackendsInit ==
    /\ frame \in EncoderFrames
    /\ \/ /\ backend \in {"Kitty", "Iterm2"}
          /\ \E lim \in {<<None, None>>, <<<<2>>, <<1>>>>}, cols \in TermColumns,
                bgs \in EncoderBackgrounds :
                options = [sizing |-> [Unconstrained EXCEPT !.width_cells = lim[1],
                                                            !.height_cells = lim[2]],
                           terminal |-> [columns |-> cols, rows |-> 1],
                           background |-> bgs, pixelation |-> "Quarter",
                           use_8bit_color |-> FALSE]
          /\ in_multiplexer \in BOOLEAN
          /\ png \in PngResults
          /\ image_id \in (IF backend = "Kitty" THEN ImageIds ELSE {0})
          /\ native = NoNative
       \/ /\ backend = "Sixel"
          /\ \E wc \in {None, <<2>>}, fw, fh, up, ui \in BOOLEAN, cols \in TermColumns,
                rws \in TermRows, bgs \in EncoderBackgrounds :
                options = [sizing |-> [Unconstrained EXCEPT !.width_cells = wc,
                                          !.fit_width = fw, !.fit_height = fh,
                                          !.upscale = up, !.upscale_integer = ui],
                           terminal |-> [columns |-> cols, rows |-> rws],
                           background |-> bgs, pixelation |-> "Quarter",
                           use_8bit_color |-> FALSE]
          /\ in_multiplexer \in BOOLEAN
          /\ png = NoPng
          /\ image_id = 0
          /\ native \in NativeResults
       \/ /\ backend = "Unicode"
          /\ \E bgs \in EncoderBackgrounds, pix \in {"Half", "Quarter"}, eight \in BOOLEAN :
                options = [sizing |-> Unconstrained,
                           terminal |-> [columns |-> 2, rows |-> 1],
                           background |-> bgs, pixelation |-> pix,
                           use_8bit_color |-> eight]
          /\ in_multiplexer \in BOOLEAN
          /\ png = NoPng
          /\ image_id = 0
          /\ native = NoNative
    /\ RenderStart

\* PNG lengths of the framing runs: up to three chunks of either encoder
\* (6145 bytes are 8196 base64 characters).
FramingPngLengths == {1, 2304, 2305, 3072, 3073, 6145}

\* n bytes that differ from chunk to chunk.
PatternBytes(n) == [i \in 1..n |-> (i * 7) % 256]

\* Framing runs: the Kitty and iTerm2 encoders on PNG outputs of one, two and
\* three chunks, with and without a multiplexer, under no, one or two
\* explicit cell limits.
FramingInit ==
    /\ backend \in {"Kitty", "Iterm2"}
    /\ \E w, h \in CellDims :
          frame = [width |-> w, height |-> h, pixels |-> UniformPixels(w, h, OpaqueRed)]
    /\ \E lim \in {<<None, None>>, <<<<2>>, None>>, <<<<0>>, <<4>>>>} :
          options = [sizing |-> [Unconstrained EXCEPT !.width_cells = lim[1],
                                                      !.height_cells = lim[2]],
                     terminal |-> [columns |-> 3, rows |-> 2],
                     background |-> NoBackground, pixelation |-> "Quarter",
                     use_8bit_color |-> FALSE]
    /\ in_multiplexer \in BOOLEAN
    /\ \E n \in FramingPngLengths : png = [ok |-> TRUE, bytes |-> PatternBytes(n)]
    /\ image_id \in (IF backend = "Kitty" THEN ImageIds ELSE {0})
    /\ native = NoNative
    /\ RenderStart

\* The terminal of the encoders' unit tests: 80 columns, 24 rows.
TestTerminal == [columns |-> 80, rows |-> 24]

\* The small terminals of the model and the terminal of the unit tests.
AllocTerminals ==
    {[columns |-> cols, rows |-> rws] : cols \in TermColumns, rws \in TermRows}
        \cup {TestTerminal}

\* Allocation runs: every backend on every frame size, cell limit (0 and
\* beyond the terminal included), fit and upscale flag and terminal size,
\* with a one-byte PNG and a native sixel sequence.
AllocInit ==
    /\ backend \in {"Unicode", "Kitty", "Iterm2", "Sixel"}
    /\ \E w, h \in 1..MaxDim :
          frame = [width |-> w, height |-> h, pixels |-> UniformPixels(w, h, OpaqueRed)]
    /\ \E sz \in Sizings, term \in AllocTerminals, pix \in {"Half", "Quarter"} :
          /\ sz.width_stretch = <<1, 1>>
          /\ backend # "Unicode" => pix = "Quarter"
          /\ options = [sizing |-> sz, terminal |-> term,
                        background |-> NoBackground, pixelation |-> pix,
                        use_8bit_color |-> FALSE]
    /\ in_multiplexer = FALSE
    /\ png = [ok |-> TRUE, bytes |-> <<0>>]
    /\ image_id = 1
    /\ native = [failed_at |-> "none", buffer |-> SixelSequence, utf8 |-> TRUE]
    /\ RenderStart

\* KittyBackend::render
RenderKitty ==
    /\ upc = "call"
    /\ UNCHANGED exceptRender
    /\ backend = "Kitty"
    /\ LET width_cells ==
               Min(Max(IF options.sizing.width_cells = None THEN options.terminal.columns
                       ELSE options.sizing.width_cells[1], 1), options.terminal.columns)
           height_cells ==
               Min(Max(IF options.sizing.height_cells = None THEN options.terminal.rows
                       ELSE options.sizing.height_cells[1], 1), options.terminal.rows)
           image == blend_transparency(frame, options.background)
       IN  /\ scaled' = image
           /\ IF png.ok
              THEN /\ rendered' =
                         [lines |-> KittyBuildChunks(png.bytes, width_cells, height_cells,
                                                     image.width, image.height, image_id,
                                                     in_multiplexer),
                          width_cells |-> width_cells,
                          height_cells |-> 0]
                   /\ upc' = "done"
              ELSE /\ upc' = "error"
                   /\ UNCHANGED rendered
    /\ UNCHANGED <<renderInputs, scale, native_calls, native_input>>

\* ITerm2Backend::render
RenderIterm2 ==
    /\ upc = "call"
    /\ UNCHANGED exceptRender
    /\ backend = "Iterm2"
    /\ LET cells == Iterm2Cells(frame, options)
           image == blend_transparency(frame, options.background)
       IN  /\ scaled' = image
           /\ IF png.ok
              THEN /\ rendered' =
                         [lines |-> Iterm2BuildChunks(png.bytes, cells[1], cells[2],
                                                      in_multiplexer),
                          width_cells |-> cells[1],
                          height_cells |-> 0]
                   /\ upc' = "done"
              ELSE /\ upc' = "error"
                   /\ UNCHANGED rendered
    /\ UNCHANGED <<renderInputs, scale, native_calls, native_input>>

\* SixelBackend::render
RenderSixel ==
    /\ upc = "call"
    /\ UNCHANGED exceptRender
    /\ backend = "Sixel"
    /\ LET target == scale_frame(frame, options)
       IN  /\ scale' = target.scale
           /\ \E img \in ScaledResults(frame, target.width, target.height) :
                 scaled' = blend_transparency(img, options.background)
           /\ IF native.failed_at = "none" /\ native.utf8
              THEN /\ rendered' = [lines |-> <<SixelText(native.buffer)>>,
                                   width_cells |-> target.width_cells,
                                   height_cells |-> 0]
                   /\ upc' = "done"
              ELSE /\ upc' = "error"
                   /\ UNCHANGED rendered
    /\ native_calls' = SixelCreated(native.failed_at) \o DropGuards(SixelGuards(native.failed_at))
    /\ native_input' = SixelPadded(scaled')
    /\ UNCHANGED renderInputs

UnicodeNext == RenderHalfBlocks \/ RenderQuarterBlocks

EncodersNext == RenderKitty \/ RenderIterm2

BackendsNext ==
    \/ RenderHalfBlocks
    \/ RenderQuarterBlocks
    \/ RenderKitty
    \/ RenderIterm2
    \/ RenderSixel

\* =========================================================================
\* renderer.rs: print_frame, the playback loop and the grid
\* =========================================================================

\* What backend.render returns for a frame: Err, or Ok with the number of
\* lines and the cell geometry of the RenderedFrame.
RenderErr == [ok |-> FALSE, lines |-> 0, height_cells |-> 0, width_cells |-> 0]
RenderOk(n, h, w) == [ok |-> TRUE, lines |-> n, height_cells |-> h, width_cells |-> w]

\* Outcomes the model draws from: an error, Unicode frames of one and two
\* lines, and a graphics frame (height_cells 0).
RenderOutcomes == {RenderErr, RenderOk(1, 1, 1), RenderOk(2, 2, 6), RenderOk(1, 0, 2)}

\* self.terminal.columns
RendererColumns == 6

\* One write to the output: its kind, the frame it belongs to (0 for none)
\* and its argument (a line number, a count of cells or of rows).
Entry(k, of, arg) == [kind |-> k, of |-> of, arg |-> arg]

indent_for(res) ==
    IF ~config.center \/ grid # None THEN 0
    ELSE LET available == RendererColumns - res.width_cells
         IN  IF available > 0 THEN available \div 2 ELSE 0

\* write_rendered: per line the padding (if any), the line, a newline.
write_rendered(res, idx, indent) ==
    Concat([i \in 1..res.lines |->
               (IF indent > 0 THEN <<Entry("pad", idx, indent)>> ELSE <<>>)
                   \o <<Entry("line", idx, i), Entry("nl", idx, i)>>])

\* A cursor-up that moves one row less than the previous frame's height.
CursorUpOneShort(idx, is_first, height) ==
    IF ~is_first /\ height > 0 THEN <<Entry("cursor_up", idx, height - 1)>> ELSE <<>>

\* The cursor-up of the playback loop.
CursorUp(idx, is_first, height) ==
    IF ~is_first /\ height > 0 THEN <<Entry("cursor_up", idx, height)>> ELSE <<>>

\* A loop body that moves the cursor up before it looks at the render result.
LoopBodyWritesCursorFirst(res, idx, is_first, height) ==
    CursorUp(idx, is_first, height)
        \o (IF res.ok THEN write_rendered(res, idx, indent_for(res)) ELSE <<>>)

\* What the playback loop's body writes for frame idx: nothing when render
\* returned Err (the ? returns first), else the cursor-up and the lines.
LoopBodyWrites(res, idx, is_first, height) ==
    IF ~res.ok THEN <<>>
    ELSE CursorUp(idx, is_first, height) \o write_rendered(res, idx, indent_for(res))

\* The sink: it takes config.sink_budget writes and fails from then on
\* (a negative budget never fails). Accepted(w) is how many of the writes w
\* it takes after what it has taken so far.
Accepted(w) ==
    IF config.sink_budget < 0 THEN Len(w)
    ELSE Min(Len(w), Max(config.sink_budget - Len(stdout), 0))

SinkBroken(w) ==
    config.sink_budget >= 0 /\ Len(stdout) + Accepted(w) >= config.sink_budget

\* A loop count that plays one pass more than asked for.
LoopCountOneMore ==
    IF config.loop_forever THEN -1
    ELSE IF config.loops # None
         THEN (IF config.loops[1] < 0 THEN config.loops[1] ELSE config.loops[1] + 1)
    ELSE 2

\* loop_count of render_sequence
LoopCount ==
    IF config.loop_forever THEN -1
    ELSE IF config.loops # None THEN config.loops[1]
    ELSE 1

\* frames_to_render of render_sequence: <<start_frame, number of frames>>.
FramesToRender ==
    LET start_frame == Min(config.frame_offset, Max(Len(seq_frames) - 1, 0))
        available == Len(seq_frames) - start_frame
    IN  <<start_frame,
          IF config.max_frames # None THEN Min(config.max_frames[1], available)
          ELSE available>>

NoConfig ==
    [frame_offset |-> 0, max_frames |-> None, loop_forever |-> FALSE, loops |-> None,
     max_duration |-> None, center |-> FALSE, sink_budget |-> -1]

SinkBudgets == {-1, 0, 3}

Configs ==
    [frame_offset : {0, 1}, max_frames : {None, <<2>>}, loop_forever : BOOLEAN,
     loops : {None, <<-1>>, <<0>>, <<2>>}, max_duration : {None, <<1>>},
     center : BOOLEAN, sink_budget : SinkBudgets]

\* A grid image: the number of frames it has (0 or more) and what
\* backend.render returns for its first frame.
GridImages == [frames : {0, 1}, outcome : RenderOutcomes]

LoopStart ==
    /\ frames_to_render = <<0, 0>>
    /\ first = TRUE
    /\ last_height = 0
    /\ current_loop = 0
    /\ frame_idx = 1
    /\ row_index = 0
    /\ failed = 0
    /\ stdout = <<>>

\* A call of render_sequence (scroll_animation off) or of render_grid.
RendererInit ==
    /\ \/ /\ config \in Configs
          /\ seq_frames \in SeqsUpTo(RenderOutcomes, MaxFrames)
          /\ grid = None
          /\ grid_images = <<>>
          /\ supported_kind = "Unicode"
          /\ rpc = "render_sequence"
       \/ /\ \E budget \in SinkBudgets : config = [NoConfig EXCEPT !.sink_budget = budget]
          /\ seq_frames = <<>>
          /\ \E g \in [columns : {1, 2}, rows : {None, <<1>>}, spacing : {0, 1}] :
                grid = <<g>>
          /\ grid_images \in SeqsUpTo(GridImages, MaxFrames) \ {<<>>}
          /\ supported_kind \in {"Unicode", "Kitty"}
          /\ rpc = "render_grid"
    /\ LoopStart

RendererIdle ==
    /\ config = NoConfig
    /\ seq_frames = <<>>
    /\ grid = None
    /\ grid_images = <<>>
    /\ supported_kind = "Unicode"
    /\ LoopStart
    /\ rpc = "idle"

\* render_sequence up to the loop: the frame selection and the dispatch.
RenderSequence ==
    /\ rpc = "render_sequence"
    /\ UNCHANGED exceptRenderer
    /\ frames_to_render' = FramesToRender
    /\ rpc' = IF FramesToRender[2] = 0 THEN "done"
              ELSE IF FramesToRender[2] = 1 THEN "print_frame"
              ELSE "loop"
    /\ UNCHANGED <<rendererInputs, stdout, first, last_height, current_loop, frame_idx,
                   row_index, failed>>

\* print_frame of the one selected frame.
PrintFrame ==
    /\ rpc = "print_frame"
    /\ UNCHANGED exceptRenderer
    /\ LET idx == frames_to_render[1] + 1
           res == seq_frames[idx]
           writes == write_rendered(res, idx, indent_for(res))
       IN  IF ~res.ok
           THEN /\ failed' = idx
                /\ rpc' = "error"
                /\ UNCHANGED stdout
           ELSE /\ stdout' = stdout \o SubSeq(writes, 1, Accepted(writes))
                /\ rpc' = IF SinkBroken(writes) THEN "error" ELSE "done"
                /\ UNCHANGED failed
    /\ UNCHANGED <<rendererInputs, loopVars, row_index>>

\* The playback loop's duration check: the limit has elapsed.
LoopDurationElapsed ==
    /\ rpc = "loop"
    /\ UNCHANGED exceptRenderer
    /\ current_loop < MaxPasses
    /\ config.max_duration # None
    /\ rpc' = "done"
    /\ UNCHANGED <<rendererInputs, stdout, loopVars, row_index, failed>>

\* The playback loop's body for one frame, and the end of a pass after the
\* last frame.
LoopFrame ==
    /\ rpc = "loop"
    /\ UNCHANGED exceptRenderer
    /\ current_loop < MaxPasses
    /\ LET idx == frames_to_render[1] + frame_idx
           res == seq_frames[idx]
           writes == LoopBodyWrites(res, idx, first, last_height)
           last == frame_idx = frames_to_render[2]
       IN  /\ stdout' = stdout \o SubSeq(writes, 1, Accepted(writes))
           /\ IF ~res.ok
              THEN /\ failed' = idx
                   /\ rpc' = "error"
                   /\ UNCHANGED <<first, last_height, current_loop, frame_idx>>
              ELSE IF SinkBroken(writes)
              THEN /\ rpc' = "error"
                   /\ UNCHANGED <<failed, first, last_height, current_loop, frame_idx>>
              ELSE /\ last_height' = res.height_cells
                   /\ first' = FALSE
                   /\ frame_idx' = IF last THEN 1 ELSE frame_idx + 1
                   /\ current_loop' = IF last THEN current_loop + 1 ELSE current_loop
                   /\ rpc' = IF last /\ LoopCount >= 0 /\ current_loop + 1 >= LoopCount
                             THEN "done" ELSE "loop"
                   /\ UNCHANGED failed
    /\ UNCHANGED <<rendererInputs, frames_to_render, row_index>>

\* render_grid up to its loop: only the Unicode backend is laid out.
RenderGrid ==
    /\ rpc = "render_grid"
    /\ UNCHANGED exceptRenderer
    /\ rpc' = IF supported_kind # "Unicode" THEN "error" ELSE "grid_row"
    /\ UNCHANGED <<rendererInputs, stdout, loopVars, row_index, failed>>

\* The images of grid row r (from 0), as indexes into grid_images.
GridChunk(r) ==
    {k \in 1..Len(grid_images) : (k - 1) \div grid[1].columns = r}

\* What render_grid writes for a row whose images all rendered: line by
\* line, per image the line or the fill, the gap between images, a newline;
\* then the newline that ends the row.
GridRowWrites(r) ==
    LET chunk == GridChunk(r)
        lo == r * grid[1].columns + 1
        n == Cardinality(chunk)
        max_lines == CHOOSE m \in 0..8 :
                        /\ \A k \in chunk : grid_images[k].outcome.lines <= m
                        /\ \E k \in chunk : grid_images[k].outcome.lines = m
        cell(line_idx, col) ==
            LET k == lo + col - 1
                res == grid_images[k].outcome
            IN  (IF line_idx <= res.lines THEN <<Entry("line", k, line_idx)>>
                 ELSE <<Entry("fill", k, res.width_cells)>>)
                    \o (IF col < n THEN <<Entry("gap", k, grid[1].spacing)>> ELSE <<>>)
        row(line_idx) ==
            Concat([col \in 1..n |-> cell(line_idx, col)]) \o <<Entry("nl", 0, line_idx)>>
    IN  Concat([line_idx \in 1..max_lines |-> row(line_idx)]) \o <<Entry("nl", 0, 0)>>

\* One pass of render_grid's loop over the rows: all images of the row are
\* rendered (the first Err returns), then the row is written.
RenderGridRow ==
    /\ rpc = "grid_row"
    /\ UNCHANGED exceptRenderer
    /\ LET chunk == GridChunk(row_index)
           bad == {k \in chunk : grid_images[k].frames = 0 \/ ~grid_images[k].outcome.ok}
           writes == GridRowWrites(row_index)
       IN  IF chunk = {} \/ (grid[1].rows # None /\ row_index >= grid[1].rows[1])
           THEN /\ rpc' = "done"
                /\ UNCHANGED <<stdout, row_index, failed>>
           ELSE IF bad # {}
           THEN LET k == CHOOSE b \in bad : \A o \in bad : b <= o
                IN  /\ failed' = IF grid_images[k].frames = 0 THEN 0 ELSE k
                    /\ rpc' = "error"
                    /\ UNCHANGED <<stdout, row_index>>
           ELSE /\ stdout' = stdout \o SubSeq(writes, 1, Accepted(writes))
                /\ rpc' = IF Accepted(writes) < Len(writes) THEN "error" ELSE "grid_row"
                /\ row_index' = row_index + 1
                /\ UNCHANGED failed
    /\ UNCHANGED <<rendererInputs, loopVars>>

RendererNext ==
    \/ RenderSequence
    \/ PrintFrame
    \/ LoopDurationElapsed
    \/ LoopFrame
    \/ RenderGrid
    \/ RenderGridRow

\* =========================================================================
\* backend/mod.rs, renderer.rs: backend selection
\* =========================================================================

BackendKinds == {"Auto", "Unicode", "Kitty", "Iterm2", "Sixel"}

GraphicsKinds == {"Kitty", "Iterm2", "Sixel"}

\* The kinds detect_terminal_backend returns.
GuessKinds == {"Unicode", "Kitty", "Iterm2", "Sixel"}

\* The cargo feature that compiles a graphics backend in.
FeatureOf(k) ==
    CASE k = "Kitty" -> "kitty"
      [] k = "Iterm2" -> "iterm2"
      [] k = "Sixel" -> "sixel"

Features == {"kitty", "iterm2", "sixel"}

BuildOk(b) == [ok |-> TRUE, backend |-> b]

BuildErr == [ok |-> FALSE, backend |-> "none"]

\* A factory that substitutes the Unicode compositor for a backend that
\* is not compiled in.
build_substituting(k, feats) ==
    IF k \in GraphicsKinds /\ FeatureOf(k) \in feats THEN BuildOk(k) ELSE BuildOk("Unicode")

\* BackendFactory::build
build(k, feats) ==
    CASE k \in {"Unicode", "Auto"} -> BuildOk("Unicode")
      [] k \in GraphicsKinds ->
            IF FeatureOf(k) \in feats THEN BuildOk(k) ELSE BuildErr

\* BackendFactory::auto_from_guess
auto_from_guess(g, feats) ==
    LET r == build(g, feats) IN
    IF r.ok THEN r ELSE BuildOk("Unicode")

NoSelection == [ok |-> FALSE, backend |-> "unset"]

FactoryInit ==
    /\ features \in SUBSET Features
    /\ entry \in {"build", "auto_from_guess", "Renderer::build"}
    /\ kind \in BackendKinds
    /\ guess \in GuessKinds
    /\ stdout_tty \in BOOLEAN
    /\ quiet \in BOOLEAN
    /\ tmux_env \in BOOLEAN
    /\ selected = NoSelection
    /\ warned = FALSE
    /\ passthrough = FALSE
    /\ fpc = "call"

FactoryIdle ==
    /\ features = {}
    /\ entry = "build"
    /\ kind = "Auto"
    /\ guess = "Unicode"
    /\ stdout_tty = TRUE
    /\ quiet = FALSE
    /\ tmux_env = FALSE
    /\ selected = NoSelection
    /\ warned = FALSE
    /\ passthrough = FALSE
    /\ fpc = "done"

\* BackendFactory::build called directly.
FactoryBuild ==
    /\ fpc = "call"
    /\ entry = "build"
    /\ selected' = build(kind, features)
    /\ fpc' = "done"
    /\ UNCHANGED <<factoryInputs, warned, passthrough>>
    /\ UNCHANGED exceptFactory

\* BackendFactory::auto_from_guess called directly.
AutoFromGuess ==
    /\ fpc = "call"
    /\ entry = "auto_from_guess"
    /\ selected' = auto_from_guess(kind, features)
    /\ fpc' = "done"
    /\ UNCHANGED <<factoryInputs, warned, passthrough>>
    /\ UNCHANGED exceptFactory

\* Renderer::build when stdout is not a terminal: ensure_tty_stdout fails.
RendererBuildNotTty ==
    /\ fpc = "call"
    /\ entry = "Renderer::build"
    /\ ~stdout_tty
    /\ selected' = [ok |-> FALSE, backend |-> "StdoutNotTty"]
    /\ fpc' = "done"
    /\ UNCHANGED <<factoryInputs, warned, passthrough>>
    /\ UNCHANGED exceptFactory

\* The kind Renderer::build asks the factory for.
backend_kind == IF kind = "Auto" THEN guess ELSE kind

\* Renderer::build on a terminal.
RendererBuild ==
    /\ fpc = "call"
    /\ entry = "Renderer::build"
    /\ stdout_tty
    /\ LET r == build(backend_kind, features) IN
        /\ selected' = IF r.ok THEN r ELSE auto_from_guess("Unicode", features)
        /\ warned' = (~r.ok /\ backend_kind # "Unicode" /\ ~quiet)
    /\ passthrough' = (backend_kind \in {"Kitty", "Iterm2"} /\ tmux_env)
    /\ fpc' = "done"
    /\ UNCHANGED factoryInputs
    /\ UNCHANGED exceptFactory

FactoryNext ==
    \/ FactoryBuild
    \/ AutoFromGuess
    \/ RendererBuildNotTty
    \/ RendererBuild

\* =========================================================================
\* backend/image_util.rs: background_rgb and blend_transparency, called alone
\* =========================================================================

\* Solid and pattern colours the model draws from (equal ones included).
BgColors == {<<255, 255, 255>>, <<128, 128, 128>>, <<0, 0, 0>>}

\* pattern_size values: 0 (raised to 1), 1 and 2, that is tiles of 4 and 8.
PatternSizes == {0, 1, 2}

AllBackgroundStyles ==
    [color : {None} \cup BgColors,
     pattern : {None} \cup BgColors,
     pattern_size : PatternSizes]

\* Pixels blend_transparency is called with: opaque, half transparent, fully
\* transparent and almost opaque.
BlendPixels == {<<255, 0, 0, 255>>, <<0, 255, 0, 128>>, <<10, 20, 30, 0>>, <<200, 100, 51, 254>>}

\* One row or one column of BlendLen pixels.
BlendImages ==
    {[width |-> BlendLen, height |-> 1, pixels |-> f] :
        f \in [(0..(BlendLen - 1)) \X {0} -> BlendPixels]}
    \cup {[width |-> 1, height |-> BlendLen, pixels |-> f] :
        f \in [{0} \X (0..(BlendLen - 1)) -> BlendPixels]}

BackgroundInit ==
    /\ \/ /\ bg_op = "background_rgb"
          /\ bgx \in 0..MaxCoord
          /\ bgy \in 0..MaxCoord
          /\ bg_style \in AllBackgroundStyles
          /\ blend_image = NoImage
       \/ /\ bg_op = "blend_transparency"
          /\ bgx = 0
          /\ bgy = 0
          /\ bg_style \in {st \in AllBackgroundStyles : st.pattern_size = 1}
          /\ blend_image \in BlendImages
    /\ bg_rgb = None
    /\ blend_out = NoImage
    /\ gpc = "call"

BackgroundIdle ==
    /\ bg_op = "background_rgb"
    /\ bgx = 0
    /\ bgy = 0
    /\ bg_style = NoBackground
    /\ blend_image = NoImage
    /\ bg_rgb = None
    /\ blend_out = NoImage
    /\ gpc = "idle"

\* background_rgb(x, y, background) called alone.
BackgroundRgb ==
    /\ gpc = "call"
    /\ bg_op = "background_rgb"
    /\ bg_rgb' = background_rgb(bgx, bgy, bg_style)
    /\ gpc' = "done"
    /\ UNCHANGED <<backgroundInputs, blend_out>>
    /\ UNCHANGED exceptBackground

\* blend_transparency(&mut image, background)
BlendTransparency ==
    /\ gpc = "call"
    /\ bg_op = "blend_transparency"
    /\ blend_out' = blend_transparency(blend_image, bg_style)
    /\ gpc' = "done"
    /\ UNCHANGED <<backgroundInputs, bg_rgb>>
    /\ UNCHANGED exceptBackground

BackgroundNext == BackgroundRgb \/ BlendTransparency

\* =========================================================================
\* renderer.rs: render_scrolling, the generation of the scroll positions
\* =========================================================================

I32_MAX == 2147483647
I32_MIN == -I32_MAX - 1

\* Whether a + d leaves the i32 range, for the a >= 0 the loop adds to.
AddOverflows(a, d) == d > 0 /\ d > I32_MAX - a

\* a + d in a build without overflow checks: the sum modulo 2^32, taken
\* without leaving the i32 range on the way.
wrapping_add(a, d) ==
    IF AddOverflows(a, d) THEN (a - I32_MAX - 1) + (d - I32_MAX - 1) ELSE a + d

\* i32::clamp
clamp(v, lo, hi) == IF v < lo THEN lo ELSE IF v > hi THEN hi ELSE v

\* The steps the model draws from: both ends of the i32 range, zero and
\* small steps of either sign.
ScrollSteps == {I32_MIN, -1, 0, 1, 2, I32_MAX - 1, I32_MAX}

ViewportSizes == {1, 2}

\* A call of render_scrolling whose frame has been rendered by the Unicode
\* compositor to at least one line.
ScrollInit ==
    /\ scroll_dx \in ScrollSteps
    /\ scroll_dy \in ScrollSteps
    /\ image_cells \in [width : 1..MaxCells, height : 1..MaxCells]
    /\ viewport \in [width : ViewportSizes, height : ViewportSizes]
    /\ overflow_checks \in BOOLEAN
    /\ scroll_x_range = 0
    /\ scroll_y_range = 0
    /\ pos_x = 0
    /\ pos_y = 0
    /\ positions = <<>>
    /\ spc = "call"

ScrollIdle ==
    /\ scroll_dx = 0
    /\ scroll_dy = 0
    /\ image_cells = [width |-> 0, height |-> 0]
    /\ viewport = [width |-> 0, height |-> 0]
    /\ overflow_checks = FALSE
    /\ scroll_x_range = 0
    /\ scroll_y_range = 0
    /\ pos_x = 0
    /\ pos_y = 0
    /\ positions = <<>>
    /\ spc = "idle"

\* render_scrolling up to the loop: an image that fits the viewport is
\* written as it is, otherwise the scroll ranges are computed.
RenderScrolling ==
    /\ spc = "call"
    /\ UNCHANGED exceptScroll
    /\ IF image_cells.width <= viewport.width /\ image_cells.height <= viewport.height
       THEN /\ spc' = "written"
            /\ UNCHANGED <<scroll_x_range, scroll_y_range>>
       ELSE /\ scroll_x_range' = Max(image_cells.width - viewport.width, 0)
            /\ scroll_y_range' = Max(image_cells.height - viewport.height, 0)
            /\ spc' = "positions"
    /\ pos_x' = 0
    /\ pos_y' = 0
    /\ positions' = <<>>
    /\ UNCHANGED scrollInputs

\* One iteration of the loop that generates the positions: push, step,
\* clamp, then break or move. x + dx and y + dy are i32 additions: out of
\* range they panic in a build with overflow checks and wrap in one without.
ScrollPosition ==
    /\ spc = "positions"
    /\ UNCHANGED exceptScroll
    /\ Len(positions) < MaxPositions
    /\ positions' = Append(positions, <<pos_x, pos_y>>)
    /\ IF overflow_checks
             /\ (AddOverflows(pos_x, scroll_dx) \/ AddOverflows(pos_y, scroll_dy))
       THEN /\ spc' = "panic"
            /\ UNCHANGED <<pos_x, pos_y>>
       ELSE LET next_x == clamp(wrapping_add(pos_x, scroll_dx), 0, scroll_x_range)
                next_y == clamp(wrapping_add(pos_y, scroll_dy), 0, scroll_y_range)
            IN  IF next_x = pos_x /\ next_y = pos_y
                THEN /\ spc' = "animate"
                     /\ UNCHANGED <<pos_x, pos_y>>
                ELSE /\ pos_x' = next_x
                     /\ pos_y' = next_y
                     /\ spc' = "positions"
    /\ UNCHANGED <<scrollInputs, scroll_x_range, scroll_y_range>>

ScrollNext == RenderScrolling \/ ScrollPosition

\* =========================================================================
\* Specifications
\* =========================================================================

InitChunks == ChunkInit /\ TmuxIdle /\ QuantIdle /\ BlockIdle /\ RenderIdle /\ RendererIdle /\ FactoryIdle /\ BackgroundIdle /\ ScrollIdle

SpecChunks == InitChunks /\ [][ChunkNext]_vars

InitTmux == TmuxInit /\ ChunkIdle /\ QuantIdle /\ BlockIdle /\ RenderIdle /\ RendererIdle /\ FactoryIdle /\ BackgroundIdle /\ ScrollIdle

SpecTmux == InitTmux /\ [][TmuxNext]_vars

InitQuant == QuantInit /\ ChunkIdle /\ TmuxIdle /\ BlockIdle /\ RenderIdle /\ RendererIdle /\ FactoryIdle /\ BackgroundIdle /\ ScrollIdle

SpecQuant == InitQuant /\ [][QuantNext]_vars

InitBlock == BlockInit /\ ChunkIdle /\ TmuxIdle /\ QuantIdle /\ RenderIdle /\ RendererIdle /\ FactoryIdle /\ BackgroundIdle /\ ScrollIdle

SpecBlock == InitBlock /\ [][BlockNext]_vars

InitSizing == SizingInit /\ ChunkIdle /\ TmuxIdle /\ QuantIdle /\ BlockIdle /\ RendererIdle /\ FactoryIdle /\ BackgroundIdle /\ ScrollIdle

SpecSizing == InitSizing /\ [][UnicodeNext]_vars

InitCells == CellsInit /\ ChunkIdle /\ TmuxIdle /\ QuantIdle /\ BlockIdle /\ RendererIdle /\ FactoryIdle /\ BackgroundIdle /\ ScrollIdle

SpecCells == InitCells /\ [][UnicodeNext]_vars

InitBackends == BackendsInit /\ ChunkIdle /\ TmuxIdle /\ QuantIdle /\ BlockIdle /\ RendererIdle /\ FactoryIdle /\ BackgroundIdle /\ ScrollIdle

SpecBackends == InitBackends /\ [][BackendsNext]_vars

InitAlloc == AllocInit /\ ChunkIdle /\ TmuxIdle /\ QuantIdle /\ BlockIdle /\ RendererIdle /\ FactoryIdle /\ BackgroundIdle /\ ScrollIdle

SpecAlloc == InitAlloc /\ [][BackendsNext]_vars

InitRenderer ==
    RendererInit /\ ChunkIdle /\ TmuxIdle /\ QuantIdle /\ BlockIdle /\ RenderIdle /\ FactoryIdle /\ BackgroundIdle /\ ScrollIdle

InitFraming ==
    FramingInit /\ ChunkIdle /\ TmuxIdle /\ QuantIdle /\ BlockIdle /\ RendererIdle /\ FactoryIdle /\ BackgroundIdle /\ ScrollIdle

SpecFraming == InitFraming /\ [][EncodersNext]_vars

InitBackground ==
    BackgroundInit /\ ChunkIdle /\ TmuxIdle /\ QuantIdle /\ BlockIdle /\ RenderIdle /\ RendererIdle /\ FactoryIdle /\ ScrollIdle

SpecBackground == InitBackground /\ [][BackgroundNext]_vars

InitFactory ==
    FactoryInit /\ ChunkIdle /\ TmuxIdle /\ QuantIdle /\ BlockIdle /\ RenderIdle /\ RendererIdle /\ BackgroundIdle /\ ScrollIdle

SpecFactory == InitFactory /\ [][FactoryNext]_vars

SpecRenderer == InitRenderer /\ [][RendererNext]_vars

InitScroll == ScrollInit /\ ChunkIdle /\ TmuxIdle /\ QuantIdle /\ BlockIdle /\ RenderIdle /\ RendererIdle /\ FactoryIdle /\ BackgroundIdle

SpecScroll == InitScroll /\ [][ScrollNext]_vars

\* =========================================================================
\* Properties
\* =========================================================================

\* C1: a Base64Chunks built from an empty payload reports len() = 1 and its
\* iterator yields exactly one chunk, the empty string, and then ends,
\* whatever chunk size was requested.
C1_EmptyPayloadOneEmptyChunk ==
    (data = <<>> /\ cpc \in {"iter", "done"}) =>
        /\ chunk_count = 1
        /\ Len(yielded) <= 1
        /\ \A i \in 1..Len(yielded) : yielded[i] = <<>>
        /\ (cpc = "done" => yielded = << <<>> >>)
        /\ (yielded_empty <=> Len(yielded) = 1)

C1_Witness ==
    /\ data = <<>>
    /\ requested = 7
    /\ cpc = "done"
    /\ yielded = << <<>> >>

\* C2: for a non-empty payload every yielded chunk has a length that is a
\* multiple of 4 and at most the sanitized chunk size, and every chunk except
\* possibly the last has exactly the sanitized chunk size.
C2_ChunkLengths ==
    (data # <<>> /\ cpc \in {"iter", "done"}) =>
        /\ \A i \in 1..Len(yielded) :
              /\ Len(yielded[i]) % 4 = 0
              /\ Len(yielded[i]) <= chunk_size
        /\ \A i \in 1..(Len(yielded) - 1) : Len(yielded[i]) = chunk_size
        /\ (cpc = "iter" /\ offset < Len(encoded) =>
               \A i \in 1..Len(yielded) : Len(yielded[i]) = chunk_size)

C2_Witness ==
    /\ cpc = "done"
    /\ data # <<>>
    /\ requested = 6
    /\ Len(yielded) = 2
    /\ Len(yielded[1]) = 8
    /\ Len(yielded[2]) = 4

\* C3: sanitize_chunk_size(n) is the smallest multiple of 4 that is
\* >= max(n, 4); it is idempotent and monotonically non-decreasing, and maps
\* 1, 6, 8 to 4, 8, 8.
C3_SanitizeChunkSize ==
    cpc \in {"iter", "done"} =>
        /\ chunk_size % 4 = 0
        /\ chunk_size >= requested
        /\ chunk_size >= 4
        /\ \A m \in 4..(chunk_size - 1) : ~(m % 4 = 0 /\ m >= requested)
        /\ sanitize_chunk_size(chunk_size) = chunk_size
        /\ \A m \in 0..requested : sanitize_chunk_size(m) <= chunk_size
        /\ (requested = 1 => chunk_size = 4)
        /\ (requested = 6 => chunk_size = 8)
        /\ (requested = 8 => chunk_size = 8)

C3_Witness ==
    /\ cpc = "iter"
    /\ requested = 6
    /\ chunk_size = 8

\* The number of escape characters among the first n characters of s.
EscCount(s, n) == Cardinality({i \in 1..n : s[i] = ESC})

\* Where the i-th character of s lands in the wrapped sequence.
WrappedPos(s, i) == Len(DcsPrefix) + i + EscCount(s, i - 1)

\* C4: wrap_for_tmux(s) is the prefix ESC P tmux ; followed by s with every
\* ESC doubled and every other character unchanged and in order, followed by
\* the suffix ESC \, for every s including the empty sequence.
C4_WrapForTmux ==
    wpc = "done" =>
        /\ Len(result) = Len(DcsPrefix) + Len(sequence)
                            + EscCount(sequence, Len(sequence)) + Len(DcsSuffix)
        /\ SubSeq(result, 1, Len(DcsPrefix)) = <<ESC, "P", "t", "m", "u", "x", ";">>
        /\ SubSeq(result, Len(result) - 1, Len(result)) = <<ESC, "\\">>
        /\ \A i \in 1..Len(sequence) :
              /\ result[WrappedPos(sequence, i)] = sequence[i]
              /\ (sequence[i] = ESC => result[WrappedPos(sequence, i) + 1] = ESC)

C4_Witness ==
    /\ wpc = "done"
    /\ sequence = <<ESC, "[", "m", ESC>>
    /\ result = <<ESC, "P", "t", "m", "u", "x", ";",
                  ESC, ESC, "[", "m", ESC, ESC, ESC, "\\">>

\* The level of a channel value in the 6x6x6 cube: the number of the
\* thresholds 48, 115, 155, 195, 235 it has reached.
CubeLevel(v) == Cardinality({t \in {48, 115, 155, 195, 235} : v >= t})

IsGrayscale(c) ==
    /\ abs_diff(c[1], c[2]) < 8
    /\ abs_diff(c[1], c[3]) < 8
    /\ abs_diff(c[2], c[3]) < 8

\* C5: rgb_to_256 maps black to 16, white to 231, pure red, green and blue to
\* the cube corners 196, 46 and 21, and every non-grayscale colour to
\* 16 + 36*R + 6*G + B with R, G, B the per-channel levels 0..5.
C5_RgbTo256 ==
    qpc = "done" =>
        /\ (rgb = <<0, 0, 0>> => palette_index = 16)
        /\ (rgb = <<255, 255, 255>> => palette_index = 231)
        /\ (rgb = <<255, 0, 0>> => palette_index = 196)
        /\ (rgb = <<0, 255, 0>> => palette_index = 46)
        /\ (rgb = <<0, 0, 255>> => palette_index = 21)
        /\ (~IsGrayscale(rgb) =>
               palette_index = 16 + 36 * CubeLevel(rgb[1]) + 6 * CubeLevel(rgb[2])
                                  + CubeLevel(rgb[3]))

C5_Witness ==
    /\ qpc = "done"
    /\ rgb = <<255, 0, 0>>
    /\ palette_index = 196

\* C6: called with four present quadrants all equal to a colour c, the
\* quarter-block selector returns the full block with foreground exactly c
\* and no background colour.
C6_UniformIsFullBlock ==
    (/\ bpc = "done"
     /\ IsSome(quadrants[1])
     /\ \A i \in 2..4 : quadrants[i] = quadrants[1]) =>
        best = [block |-> "Full", fg |-> quadrants[1], bg |-> None]

C6_Witness ==
    /\ bpc = "done"
    /\ quadrants = UniformQuadrants(<<48, 200, 3>>)
    /\ best = [block |-> "Full", fg |-> <<48, 200, 3>>, bg |-> None]

\* The resolved colour the half-block rule speaks of: a pixel with alpha
\* below 16 resolves to the background colour at its coordinate, or to None.
C7_Resolved(px, x, y) ==
    IF px[4] < 16
    THEN (IF options.background.color = None /\ options.background.pattern = None
          THEN None
          ELSE background_rgb(x, y, options.background))
    ELSE <<px[1], px[2], px[3]>>

C7_Cell(x, y) ==
    LET top == C7_Resolved(scaled.pixels[<<x, y>>], x, y)
        bottom == C7_Resolved(scaled.pixels[<<x, y + 1>>], x, y + 1)
        eight == options.use_8bit_color
    IN  IF top # None /\ bottom # None
        THEN push_fg(top, eight) \o push_bg(bottom, eight) \o <<UpperHalfBlock>>
        ELSE IF top # None
        THEN push_fg(top, eight) \o <<ESC, "[49m">> \o <<UpperHalfBlock>>
        ELSE IF bottom # None
        THEN push_fg(bottom, eight) \o <<ESC, "[49m">> \o <<LowerHalfBlock>>
        ELSE <<ESC, "[0m", " ">>

C7_RedFrame ==
    /\ frame = [width |-> 2, height |-> 2, pixels |-> UniformPixels(2, 2, OpaqueRed)]
    /\ options.pixelation = "Half"
    /\ options.sizing.width_cells = <<1>>
    /\ options.sizing.height_cells = None
    /\ ~options.use_8bit_color

C7_RedLine ==
    <<ESC, "[38;2;", "255", ";", "0", ";", "0", "m",
      ESC, "[48;2;", "255", ";", "0", ";", "0", "m",
      UpperHalfBlock, ESC, "[0m">>

\* C7: in half-block mode every cell of every line is emitted by the rule on
\* the resolved top and bottom pixels (both => fg top, bg bottom, upper half
\* block; top only => fg top, bg reset, upper half block; bottom only => fg
\* bottom, bg reset, lower half block; neither => full reset and a space), and
\* a 2x2 opaque red frame at a 1-cell width budget yields exactly the one line
\* fg-red, bg-red, upper half block, full reset.
C7_HalfBlockRule ==
    (upc = "done" /\ options.pixelation = "Half") =>
        /\ Len(rendered.lines) = scaled.height \div 2
        /\ \A i \in 1..Len(rendered.lines) :
              rendered.lines[i] =
                  Concat([k \in 1..scaled.width |-> C7_Cell(k - 1, 2 * (i - 1))])
                      \o <<ESC, "[0m">>
        /\ C7_RedFrame => rendered.lines = <<C7_RedLine>>

\* A half-block render whose line holds all four cases of the rule's inputs
\* apart: a cell with an alpha-16 top over an alpha-15 bottom with no
\* background (top only), next to an opaque cell.
C7_Witness ==
    /\ upc = "done"
    /\ options.pixelation = "Half"
    /\ options.background = NoBackground
    /\ ~options.use_8bit_color
    /\ scaled.width = 2
    /\ scaled.height = 2
    /\ scaled.pixels[<<0, 0>>] = <<0, 255, 0, 16>>
    /\ scaled.pixels[<<0, 1>>] = <<0, 0, 255, 15>>
    /\ scaled.pixels[<<1, 0>>] = <<0, 0, 255, 15>>
    /\ scaled.pixels[<<1, 1>>] = OpaqueRed
    /\ rendered.lines =
          <<<<ESC, "[38;2;", "0", ";", "255", ";", "0", "m", ESC, "[49m", UpperHalfBlock,
              ESC, "[38;2;", "255", ";", "0", ";", "0", "m", ESC, "[49m", LowerHalfBlock,
              ESC, "[0m">>>>

\* The 2x2 opaque red frame rendered at a 1-cell width budget.
C7_WitnessRed ==
    /\ upc = "done"
    /\ C7_RedFrame
    /\ rendered.lines = <<C7_RedLine>>
    /\ rendered.width_cells = 1
    /\ rendered.height_cells = 1

\* C8: with upscale off the applied scale never exceeds 1.0, and with
\* upscale_integer on a scale above 1.0 is applied as an integer (the floor
\* of the would-be scale), on the Unicode path as well.
C8_ScalePolicy ==
    upc = "done" =>
        /\ ~options.sizing.upscale => FracLe(scale, FracOne)
        /\ (options.sizing.upscale_integer /\ ~FracLe(scale, FracOne)) =>
              scale[1] % scale[2] = 0

\* The part of C8 the Unicode path keeps: with upscale off the applied scale
\* never exceeds 1.0.
C8_NoUpscaleClamp ==
    (upc = "done" /\ ~options.sizing.upscale) => FracLe(scale, FracOne)

EndsWith(line, suffix) ==
    /\ Len(line) >= Len(suffix)
    /\ SubSeq(line, Len(line) - Len(suffix) + 1, Len(line)) = suffix

NewlineFree(line) == \A i \in 1..Len(line) : line[i] # NL

\* The terminator C9 requires of a line of the backend called.
C9_Terminator ==
    CASE backend = "Unicode" -> <<ESC, "[0m">>
      [] backend = "Kitty" -> <<ESC, "\\">>
      [] backend = "Sixel" -> <<ESC, "\\">>
      [] backend = "Iterm2" -> IF in_multiplexer THEN <<ESC, "\\">> ELSE <<BEL>>

\* C9 as stated: every line of every RenderedFrame of every backend holds no
\* newline and ends with its terminator (ESC[0m for Unicode, ESC \ for Kitty
\* and sixel, BEL for iTerm2 or the passthrough terminator when wrapped).
C9_AllLinesTerminated ==
    upc = "done" =>
        \A i \in 1..Len(rendered.lines) :
            /\ NewlineFree(rendered.lines[i])
            /\ EndsWith(rendered.lines[i], C9_Terminator)

\* C9, amended: every line of every RenderedFrame of the Unicode, Kitty and
\* iTerm2 backends holds no newline and ends with its terminator (ESC[0m,
\* ESC \, and BEL or the passthrough terminator when wrapped); the sixel
\* backend returns exactly one line, and that line ends with a newline.
C9_LinesTerminated ==
    upc = "done" =>
        IF backend = "Sixel"
        THEN /\ Len(rendered.lines) = 1
             /\ EndsWith(rendered.lines[1], <<NL>>)
        ELSE /\ Len(rendered.lines) >= 1
             /\ \A i \in 1..Len(rendered.lines) :
                   /\ NewlineFree(rendered.lines[i])
                   /\ EndsWith(rendered.lines[i], C9_Terminator)

\* A sixel render whose native output ended with the string terminator: the
\* returned line is that output followed by a newline.
C9_Witness ==
    /\ upc = "done"
    /\ backend = "Sixel"
    /\ native.buffer = SixelSequence
    /\ rendered.lines = <<SixelSequence \o <<NL>>>>

\* A Kitty render of two chunks, unwrapped: both lines end with ESC \.
C9_WitnessKitty ==
    /\ upc = "done"
    /\ backend = "Kitty"
    /\ ~in_multiplexer
    /\ Len(rendered.lines) = 2
    /\ EndsWith(rendered.lines[1], <<"A", ESC, "\\">>)
    /\ EndsWith(rendered.lines[2], <<"=", ESC, "\\">>)

\* An iTerm2 render of two chunks under a multiplexer: both lines end with
\* the doubled-escape BEL-terminated frame inside the passthrough wrapper.
C9_WitnessIterm2Wrapped ==
    /\ upc = "done"
    /\ backend = "Iterm2"
    /\ in_multiplexer
    /\ Len(rendered.lines) = 2
    /\ EndsWith(rendered.lines[2], <<"=", BEL, ESC, "\\">>)

\* What backend.render returned for the frame an output entry belongs to.
C10_ResultOf(k) == IF grid = None THEN seq_frames[k] ELSE grid_images[k].outcome

\* C10: when rendering a frame fails no byte of that frame is written: in
\* print_frame, in the playback loop and in the grid every write that belongs
\* to a frame follows a render of that frame that returned Ok, and a render
\* error ends the call with nothing of the failed frame in the output.
C10_NoOutputForFailedFrame ==
    /\ \A i \in 1..Len(stdout) :
          stdout[i].of # 0 => C10_ResultOf(stdout[i].of).ok
    /\ failed # 0 =>
          /\ rpc = "error"
          /\ ~C10_ResultOf(failed).ok
          /\ \A i \in 1..Len(stdout) : stdout[i].of # failed

\* The playback loop stopped by the render error of its second frame, after
\* the first frame was written with a height the cursor would move up by.
C10_Witness ==
    /\ rpc = "error"
    /\ grid = None
    /\ frames_to_render[2] >= 2
    /\ failed = frames_to_render[1] + 2
    /\ ~first
    /\ last_height > 0
    /\ stdout # <<>>
    /\ \A i \in 1..Len(stdout) : stdout[i].of = frames_to_render[1] + 1

\* A grid row whose second image fails to render: the row's first image
\* rendered, and nothing of the row is written.
C10_WitnessGrid ==
    /\ rpc = "error"
    /\ grid # None
    /\ failed = 2
    /\ grid[1].columns = 2
    /\ grid_images[1].outcome.ok
    /\ stdout = <<>>

\* C11: the cell allocation reported by every backend is clamped: width_cells
\* is at least 1 and at most the terminal's columns, and for the Unicode
\* compositor without a fit flag height_cells is at least 1 and at most the
\* terminal's rows.
C11_AllocationClamped ==
    upc = "done" =>
        /\ rendered.width_cells >= 1
        /\ rendered.width_cells <= options.terminal.columns
        /\ (backend = "Unicode" /\ ~options.sizing.fit_width /\ ~options.sizing.fit_height) =>
              /\ rendered.height_cells >= 1
              /\ rendered.height_cells <= options.terminal.rows

\* The part of C11 that holds of the Unicode, Kitty and sixel backends: the
\* reported width_cells is at least 1 and at most the terminal's columns.
C11_WidthClampedExceptIterm2 ==
    (upc = "done" /\ backend # "Iterm2") =>
        /\ rendered.width_cells >= 1
        /\ rendered.width_cells <= options.terminal.columns

\* C12: BackendFactory::build gives the Unicode compositor for Auto and
\* Unicode and an error, with no substitute, for a graphics kind that is not
\* compiled in; auto_from_guess and Renderer::build turn that error into the
\* Unicode compositor, so Renderer::build fails only when stdout is not a
\* terminal and otherwise ends with a usable backend.
C12_KindMissing(k) == k \in GraphicsKinds /\ FeatureOf(k) \notin features

C12_BackendSelection ==
    fpc = "done" =>
        /\ (entry = "build" /\ kind \in {"Auto", "Unicode"}) => selected = BuildOk("Unicode")
        /\ (entry = "build" /\ C12_KindMissing(kind)) => selected = BuildErr
        /\ (entry = "build" /\ kind \in GraphicsKinds /\ ~C12_KindMissing(kind)) =>
              selected = BuildOk(kind)
        /\ entry = "auto_from_guess" =>
              /\ selected.ok
              /\ C12_KindMissing(kind) => selected.backend = "Unicode"
        /\ (entry = "Renderer::build" /\ stdout_tty) =>
              /\ selected.ok
              /\ selected.backend \in {"Unicode"} \cup GraphicsKinds
              /\ selected.backend \in GraphicsKinds => FeatureOf(selected.backend) \in features
              /\ C12_KindMissing(backend_kind) => selected.backend = "Unicode"
        /\ (entry = "Renderer::build" /\ ~selected.ok) => ~stdout_tty

\* Renderer::build asked for Kitty without the kitty feature and ended with
\* the Unicode compositor.
C12_Witness ==
    /\ fpc = "done"
    /\ entry = "Renderer::build"
    /\ kind = "Kitty"
    /\ "kitty" \notin features
    /\ stdout_tty
    /\ selected = BuildOk("Unicode")
    /\ warned = ~quiet

\* BackendFactory::build asked for Sixel without the sixel feature returned
\* the error.
C12_WitnessError ==
    /\ fpc = "done"
    /\ entry = "build"
    /\ kind = "Sixel"
    /\ "sixel" \notin features
    /\ selected = BuildErr

\* C13: in both Unicode modes the resized image has an even pixel height,
\* height_cells is half of it, and the rendered frame has exactly
\* height_cells lines.
C13_EvenHeight ==
    (upc = "done" /\ backend = "Unicode") =>
        /\ scaled.height % 2 = 0
        /\ rendered.height_cells * 2 = scaled.height
        /\ Len(rendered.lines) = rendered.height_cells

\* A frame of odd height rendered in half-block mode: the height went up to
\* the next even number.
C13_Witness ==
    /\ upc = "done"
    /\ backend = "Unicode"
    /\ options.pixelation = "Half"
    /\ frame.height = 3
    /\ scaled.height = 4
    /\ Len(rendered.lines) = 2

\* The same in quarter-block mode, for a 1x1 frame.
C13_WitnessQuarter ==
    /\ upc = "done"
    /\ backend = "Unicode"
    /\ options.pixelation = "Quarter"
    /\ frame.height = 1
    /\ scaled.height = 2
    /\ Len(rendered.lines) = 1

\* C14: the Kitty and iTerm2 encoders report height_cells = 0, and with no
\* explicit width or height the reported width_cells is min(source pixel
\* width, terminal columns), the frame being one chunk line: 2 for a 2x2 frame
\* and 1 for a 1x1 frame on an 80x24 terminal.
C14_DefaultAllocation ==
    (upc = "done" /\ backend \in {"Kitty", "Iterm2"}) =>
        /\ rendered.height_cells = 0
        /\ (options.sizing.width_cells = None /\ options.sizing.height_cells = None) =>
              /\ rendered.width_cells = Min(frame.width, options.terminal.columns)
              /\ Len(rendered.lines) = 1

\* The Kitty unit test's case: a 2x2 frame, unconstrained, on 80x24.
C14_KittyTestCase ==
    (/\ upc = "done"
     /\ backend = "Kitty"
     /\ frame.width = 2 /\ frame.height = 2
     /\ options.sizing = Unconstrained
     /\ options.terminal = TestTerminal) =>
        rendered.width_cells = 2

\* The iTerm2 unit test's case: a 1x1 frame, unconstrained, on 80x24.
C14_Iterm2TestCase ==
    (/\ upc = "done"
     /\ backend = "Iterm2"
     /\ frame.width = 1 /\ frame.height = 1
     /\ options.sizing = Unconstrained
     /\ options.terminal = TestTerminal) =>
        rendered.width_cells = 1

\* What the encoders do report: height_cells 0 and one chunk line for the
\* one-byte PNG, Kitty's width being the clamped limit.
C14_HeightCellsZero ==
    (upc = "done" /\ backend \in {"Kitty", "Iterm2", "Sixel"}) =>
        /\ rendered.height_cells = 0
        /\ Len(rendered.lines) = 1
        /\ (backend = "Kitty" /\ options.sizing.width_cells = None) =>
              rendered.width_cells = options.terminal.columns

\* C15: on the Kitty, iTerm2 and sixel paths the bitmap that is encoded has
\* exactly the source frame's pixel width and height, whatever the sizing
\* policy and the terminal size.
C15_SourceSizeEncoded ==
    (upc = "done" /\ backend \in {"Kitty", "Iterm2", "Sixel"}) =>
        /\ scaled.width = frame.width
        /\ scaled.height = frame.height

\* The Kitty and iTerm2 paths do encode the source-sized bitmap.
C15_KittyIterm2SourceSize ==
    (upc = "done" /\ backend \in {"Kitty", "Iterm2"}) =>
        /\ scaled.width = frame.width
        /\ scaled.height = frame.height

\* The sixel path never encodes fewer pixels than the source has (violated:
\* scale_frame resizes to the cell budget).
C15_SixelNotDownscaled ==
    (upc = "done" /\ backend = "Sixel") =>
        /\ scaled.width >= frame.width
        /\ scaled.height >= frame.height

\* How often a native call occurs in the log, and where it first occurs.
C16_Count(call) == Cardinality({i \in DOMAIN native_calls : native_calls[i] = call})

C16_Pos(call) == CHOOSE i \in DOMAIN native_calls : native_calls[i] = call

\* C16: on every exit path of the sixel encoder (success, or a failure of
\* sixel_output_new, sixel_dither_new, sixel_dither_initialize or
\* sixel_encode) each native resource that was created is destroyed exactly
\* once before the return, in reverse order of creation, and a resource that
\* was never created is not destroyed.
C16_ResourcesReleased ==
    (backend = "Sixel" /\ upc \in {"done", "error"}) =>
        /\ C16_Count("sixel_output_new") =
              (IF native.failed_at = "sixel_output_new" THEN 0 ELSE 1)
        /\ C16_Count("sixel_dither_new") =
              (IF native.failed_at \in {"sixel_output_new", "sixel_dither_new"} THEN 0 ELSE 1)
        /\ C16_Count("sixel_output_destroy") = C16_Count("sixel_output_new")
        /\ C16_Count("sixel_dither_destroy") = C16_Count("sixel_dither_new")
        /\ C16_Count("sixel_output_destroy") = 1 =>
              C16_Pos("sixel_output_new") < C16_Pos("sixel_output_destroy")
        /\ C16_Count("sixel_dither_destroy") = 1 =>
              /\ C16_Pos("sixel_output_new") < C16_Pos("sixel_dither_new")
              /\ C16_Pos("sixel_dither_new") < C16_Pos("sixel_dither_destroy")
              /\ C16_Pos("sixel_dither_destroy") < C16_Pos("sixel_output_destroy")

\* sixel_encode failed: both resources were created and released, the dither
\* context first.
C16_Witness ==
    /\ backend = "Sixel"
    /\ upc = "error"
    /\ native.failed_at = "sixel_encode"
    /\ native_calls = <<"sixel_output_new", "sixel_dither_new",
                        "sixel_dither_destroy", "sixel_output_destroy">>

\* sixel_dither_new failed: only the output sink was created and released.
C16_WitnessDitherNew ==
    /\ backend = "Sixel"
    /\ upc = "error"
    /\ native.failed_at = "sixel_dither_new"
    /\ native_calls = <<"sixel_output_new", "sixel_output_destroy">>

\* The encoder succeeded and released both resources.
C16_WitnessSuccess ==
    /\ backend = "Sixel"
    /\ upc = "done"
    /\ Len(native_calls) = 4

C17_StartsWith(line, prefix) ==
    /\ Len(line) >= Len(prefix)
    /\ SubSeq(line, 1, Len(prefix)) = prefix

\* A line inside the passthrough envelope ESC P tmux ; ... ESC \.
C17_IsWrapped(line) ==
    /\ Len(line) >= Len(DcsPrefix) + Len(DcsSuffix)
    /\ C17_StartsWith(line, DcsPrefix)
    /\ EndsWith(line, DcsSuffix)

\* What the envelope holds.
C17_Interior(line) == SubSeq(line, Len(DcsPrefix) + 1, Len(line) - Len(DcsSuffix))

\* The envelope holds one complete framed chunk with its escapes doubled:
\* ESC ESC _G ... ESC ESC \ for Kitty, ESC ESC ]1337;File= ... BEL for iTerm2.
C17_WrapsCompleteFrame(line) ==
    IF backend = "Kitty"
    THEN /\ C17_StartsWith(C17_Interior(line), <<ESC, ESC, "_G">>)
         /\ EndsWith(C17_Interior(line), <<ESC, ESC, "\\">>)
    ELSE /\ C17_StartsWith(C17_Interior(line), <<ESC, ESC, "]1337;File=">>)
         /\ EndsWith(C17_Interior(line), <<BEL>>)

C17_WitnessSixel ==
    /\ upc = "done"
    /\ backend = "Sixel"
    /\ in_multiplexer
    /\ Len(rendered.lines) = 1
    /\ ~C17_IsWrapped(rendered.lines[1])

\* A Unicode frame under a multiplexer, not wrapped.
C17_WitnessUnicode ==
    /\ upc = "done"
    /\ backend = "Unicode"
    /\ in_multiplexer
    /\ Len(rendered.lines) >= 1
    /\ ~C17_IsWrapped(rendered.lines[1])

\* The number of pieces of at most size characters of a base64 text, and the
\* k-th of them.
C18_Pieces(payload, size) == (Len(payload) + size - 1) \div size

C18_Piece(payload, k, size) ==
    SubSeq(payload, (k - 1) * size + 1, Min(k * size, Len(payload)))

\* Kitty's cell rows: the explicit height or the terminal's rows, clamped.
C18_Rows ==
    Min(Max(IF options.sizing.height_cells = None THEN options.terminal.rows
            ELSE options.sizing.height_cells[1], 1), options.terminal.rows)

C18_Metadata ==
    <<"a=T", ",", "f=100", ",", "q=2", ",", "i=", ToString(image_id), ",",
      "s=", ToString(frame.width), ",", "v=", ToString(frame.height), ",",
      "c=", ToString(rendered.width_cells), ",", "r=", ToString(C18_Rows)>>

\* The k-th of n lines as C18 describes it: metadata on the first line only,
\* m=1 on every line but the last.
C18_Line(payload, k, n) ==
    <<ESC, "_G">>
        \o (IF k = 1 THEN C18_Metadata ELSE <<>>)
        \o (IF k < n THEN (IF k = 1 THEN <<",", "m=1">> ELSE <<"m=1">>) ELSE <<>>)
        \o <<";">> \o C18_Piece(payload, k, KITTY_BASE64_CHUNK) \o <<ESC, "\\">>

\* C18: for a payload of n >= 1 chunks the Kitty encoder emits exactly n
\* lines in payload order, each ESC _G <params> ; <chunk> ESC \, with the
\* metadata keys a, f, q, i, s, v, c, r on the first line only and m=1 on
\* every line except the last (each line inside its passthrough envelope when
\* a multiplexer is detected).
C18_KittyFraming ==
    (upc = "done" /\ backend = "Kitty") =>
        LET payload == Base64Encode(png.bytes)
            n == C18_Pieces(payload, KITTY_BASE64_CHUNK)
        IN  /\ n >= 1
            /\ Len(rendered.lines) = n
            /\ \A k \in 1..n :
                  rendered.lines[k] =
                      IF in_multiplexer THEN wrap_for_tmux(C18_Line(payload, k, n))
                      ELSE C18_Line(payload, k, n)

\* A payload of three chunks: m=1 on the first two lines, none on the third.
C18_Witness ==
    /\ upc = "done"
    /\ backend = "Kitty"
    /\ ~in_multiplexer
    /\ Len(rendered.lines) = 3
    /\ SubSeq(rendered.lines[2], 1, 4) = <<ESC, "_G", "m=1", ";">>
    /\ SubSeq(rendered.lines[3], 1, 3) = <<ESC, "_G", ";">>
    /\ EndsWith(rendered.lines[1], <<ESC, "\\">>)

\* A payload of one chunk: the metadata and no m=1.
C18_WitnessSingle ==
    /\ upc = "done"
    /\ backend = "Kitty"
    /\ ~in_multiplexer
    /\ Len(rendered.lines) = 1
    /\ rendered.lines[1] = C18_Line(Base64Encode(png.bytes), 1, 1)

\* iTerm2's cells as build_chunks prints them.
C19_Cells == Iterm2Cells(frame, options)

C19_Metadata ==
    <<"inline=1;size=", ToString(Len(png.bytes)),
      ";width=", ToString(Max(C19_Cells[1], 1)),
      ";height=", ToString(Max(C19_Cells[2], 1)),
      ";preserveAspectRatio=1">>

\* The k-th of n lines with the continuation flag on the lines named by
\* flagged.
C19_Line(payload, k, flagged) ==
    <<ESC, "]1337;File=">>
        \o (IF k = 1 THEN C19_Metadata ELSE <<"inline=1">>)
        \o (IF k \in flagged THEN <<";m=1">> ELSE <<>>)
        \o <<":">> \o C18_Piece(payload, k, ITERM2_BASE64_CHUNK) \o <<BEL>>

C19_Framing(payload, n, flagged) ==
    /\ Len(rendered.lines) = n
    /\ \A k \in 1..n :
          rendered.lines[k] =
              IF in_multiplexer THEN wrap_for_tmux(C19_Line(payload, k, flagged))
              ELSE C19_Line(payload, k, flagged)

\* C19 as stated: the payload is cut every 4096 base64 characters, each chunk
\* is ESC ]1337;File= <params> : <chunk> BEL, the first chunk carries inline,
\* size, width, height and preserveAspectRatio, and the chunks after the first
\* are the ones that carry the continuation flag m=1.
C19_FlagAfterFirst ==
    (upc = "done" /\ backend = "Iterm2") =>
        LET payload == Base64Encode(png.bytes)
            n == C18_Pieces(payload, ITERM2_BASE64_CHUNK)
        IN  C19_Framing(payload, n, 2..n)

\* C19, amended: the payload is cut every 4096 base64 characters, each chunk
\* is ESC ]1337;File= <params> : <chunk> BEL, the first chunk carries inline,
\* size (the byte length of the encoded image), width and height in cells and
\* preserveAspectRatio=1, a later chunk carries inline=1 only, and the
\* continuation flag m=1 is on every chunk except the last.
C19_FlagExceptLast ==
    (upc = "done" /\ backend = "Iterm2") =>
        LET payload == Base64Encode(png.bytes)
            n == C18_Pieces(payload, ITERM2_BASE64_CHUNK)
        IN  C19_Framing(payload, n, 1..(n - 1))

\* A payload of three chunks: the flag on the first and the second line, not
\* on the third.
C19_Witness ==
    /\ upc = "done"
    /\ backend = "Iterm2"
    /\ ~in_multiplexer
    /\ Len(rendered.lines) = 3
    /\ SubSeq(rendered.lines[1], 9, 11) = <<";preserveAspectRatio=1", ";m=1", ":">>
    /\ SubSeq(rendered.lines[2], 1, 5) = <<ESC, "]1337;File=", "inline=1", ";m=1", ":">>
    /\ SubSeq(rendered.lines[3], 1, 4) = <<ESC, "]1337;File=", "inline=1", ":">>

\* iTerm2's budgets: the explicit limit or the terminal's size, whichever is
\* smaller.
C20_WidthBudget ==
    Min(IF options.sizing.width_cells = None THEN options.terminal.columns
        ELSE options.sizing.width_cells[1], options.terminal.columns)

C20_HeightBudget ==
    Min(IF options.sizing.height_cells = None THEN options.terminal.rows
        ELSE options.sizing.height_cells[1], options.terminal.rows)

C20_BothExplicit ==
    options.sizing.width_cells # None /\ options.sizing.height_cells # None

\* The candidates at a cell aspect of 0.5: the width that fills the height
\* budget and the height that fills the width budget, truncated.
C20_WidthFromHeight == (C20_HeightBudget * frame.width * 2) \div frame.height

C20_HeightFromWidth == (C20_WidthBudget * frame.height) \div (frame.width * 2)

\* The allocation the encoder chose: the width it reports and the pair it
\* prints in the first chunk's metadata.
C20_Chosen == Iterm2Cells(frame, options)

C20_ChosenIsEmitted ==
    /\ rendered.width_cells = C20_Chosen[1]
    /\ SubSeq(rendered.lines[1], 5, 8) =
          <<";width=", ToString(Max(C20_Chosen[1], 1)),
            ";height=", ToString(Max(C20_Chosen[2], 1))>>

\* The rule of choice: the budgets when both limits are explicit, else the
\* width-derived candidate when it is within the width budget and the
\* height-derived one otherwise (a candidate of 0 counting as 1).
C20_Choice ==
    IF C20_BothExplicit THEN C20_Chosen = <<C20_WidthBudget, C20_HeightBudget>>
    ELSE IF C20_WidthFromHeight <= C20_WidthBudget
    THEN C20_Chosen = <<Max(C20_WidthFromHeight, 1), C20_HeightBudget>>
    ELSE C20_Chosen = <<C20_WidthBudget, Max(C20_HeightFromWidth, 1)>>

C20_WitnessWidthDerived ==
    /\ upc = "done"
    /\ backend = "Iterm2"
    /\ ~C20_BothExplicit
    /\ C20_WidthFromHeight <= C20_WidthBudget
    /\ C20_WidthFromHeight >= 2
    /\ rendered.width_cells = C20_WidthFromHeight

\* Both limits explicit: the budgets themselves.
C20_WitnessExplicit ==
    /\ upc = "done"
    /\ backend = "Iterm2"
    /\ options.sizing.width_cells = <<2>>
    /\ options.sizing.height_cells = <<1>>
    /\ options.terminal.columns = 3
    /\ rendered.width_cells = 2

\* C21: the sixel encoder hands the native encoder a height that is the
\* smallest multiple of 6 that is >= the image height and a buffer of
\* width * padded height * 4 bytes: the image's rows unchanged, followed by
\* all-zero filler rows, none when the height is already a multiple of 6.
C21_SixelPadding ==
    (backend = "Sixel" /\ upc \in {"done", "error"}) =>
        LET raw == into_raw(scaled)
            n == Len(raw)
        IN  /\ native_input.width = scaled.width
            /\ native_input.height % 6 = 0
            /\ native_input.height >= scaled.height
            /\ native_input.height - scaled.height < 6
            /\ Len(native_input.data) = native_input.width * native_input.height * 4
            /\ n = scaled.width * scaled.height * 4
            /\ SubSeq(native_input.data, 1, n) = raw
            /\ \A i \in (n + 1)..Len(native_input.data) : native_input.data[i] = 0
            /\ scaled.height % 6 = 0 => native_input.data = raw

\* An image of height 4 padded by two filler rows.
C21_Witness ==
    /\ backend = "Sixel"
    /\ upc = "done"
    /\ scaled.height = 4
    /\ native_input.height = 6
    /\ Len(native_input.data) = scaled.width * 24
    /\ native_input.data[1] = 255

\* An image of height 6: no row added.
C21_WitnessNoPadding ==
    /\ backend = "Sixel"
    /\ upc = "done"
    /\ scaled.height = 6
    /\ native_input.height = 6
    /\ native_input.data = into_raw(scaled)

\* The tile side of a style and the tile a coordinate lies in.
C22_Tile == Max(bg_style.pattern_size, 1) * 4

C22_TileOf(x, y) == <<x \div C22_Tile, y \div C22_Tile>>

C22_EvenParity(x, y) == ((x \div C22_Tile) + (y \div C22_Tile)) % 2 = 0

C22_Adjacent(s, t) ==
    abs_diff(s[1], t[1]) + abs_diff(s[2], t[2]) = 1

\* C22: background_rgb gives nothing without colour and pattern, the solid
\* colour when only that is set, the pattern colour at every coordinate when
\* only that is set, and with both a checkerboard of tiles of
\* max(pattern_size, 1) * 4 pixels: the pattern colour where x / tile + y / tile
\* is even and the solid colour where it is odd, so coordinates of one tile get
\* the same of the two colours and coordinates of horizontally or vertically
\* adjacent tiles the other one.
C22_BackgroundOrder ==
    (gpc = "done" /\ bg_op = "background_rgb") =>
        /\ (bg_style.color = None /\ bg_style.pattern = None) => bg_rgb = None
        /\ (bg_style.color # None /\ bg_style.pattern = None) => bg_rgb = bg_style.color
        /\ (bg_style.color = None /\ bg_style.pattern # None) => bg_rgb = bg_style.pattern
        /\ (bg_style.color # None /\ bg_style.pattern # None) =>
              /\ bg_rgb = IF C22_EvenParity(bgx, bgy) THEN bg_style.pattern ELSE bg_style.color
              /\ \A x2, y2 \in 0..MaxCoord :
                    /\ C22_TileOf(x2, y2) = C22_TileOf(bgx, bgy) =>
                          background_rgb(x2, y2, bg_style) = bg_rgb
                    /\ C22_Adjacent(C22_TileOf(x2, y2), C22_TileOf(bgx, bgy)) =>
                          /\ background_rgb(x2, y2, bg_style) =
                                IF C22_EvenParity(bgx, bgy) THEN bg_style.color
                                ELSE bg_style.pattern
                          /\ bg_style.color # bg_style.pattern =>
                                background_rgb(x2, y2, bg_style) # bg_rgb

\* A coordinate of the second tile of the first tile row: the solid colour.
C22_Witness ==
    /\ gpc = "done"
    /\ bg_op = "background_rgb"
    /\ bg_style = [color |-> <<255, 255, 255>>, pattern |-> <<128, 128, 128>>,
                   pattern_size |-> 1]
    /\ bgx = 4 /\ bgy = 3
    /\ bg_rgb = <<255, 255, 255>>

\* A coordinate of the tile below the first: the solid colour; pattern_size 0
\* counts as 1.
C22_WitnessBelow ==
    /\ gpc = "done"
    /\ bg_op = "background_rgb"
    /\ bg_style = [color |-> <<0, 0, 0>>, pattern |-> <<128, 128, 128>>,
                   pattern_size |-> 0]
    /\ bgx = 0 /\ bgy = 4
    /\ bg_rgb = <<0, 0, 0>>

\* v is fg * alpha / 255 + bg * (1 - alpha / 255) rounded to the nearest
\* integer (255 being odd, the value is never half-way) and within 0..255.
C23_IsBlend(v, fg, bg, alpha) ==
    /\ v \in 0..255
    /\ 2 * abs_diff(255 * v, fg * alpha + bg * (255 - alpha)) <= 255

\* C23: with a solid or pattern background, blend_transparency replaces
\* every pixel of alpha < 255 per channel by the rounded blend of the pixel
\* and the background colour at its coordinate and sets its alpha to 255, so
\* every pixel is opaque afterwards; opaque pixels stay as they are; with no
\* background the image stays as it is.
C23_BlendTransparency ==
    (gpc = "done" /\ bg_op = "blend_transparency") =>
        /\ blend_out.width = blend_image.width
        /\ blend_out.height = blend_image.height
        /\ DOMAIN blend_out.pixels = DOMAIN blend_image.pixels
        /\ (bg_style.color = None /\ bg_style.pattern = None) => blend_out = blend_image
        /\ (bg_style.color # None \/ bg_style.pattern # None) =>
              \A c \in DOMAIN blend_image.pixels :
                  LET old == blend_image.pixels[c]
                      new == blend_out.pixels[c]
                      back == background_rgb(c[1], c[2], bg_style)
                  IN  /\ new[4] = 255
                      /\ old[4] = 255 => new = old
                      /\ old[4] < 255 =>
                            \A i \in 1..3 : C23_IsBlend(new[i], old[i], back[i], old[4])

\* A half-transparent green pixel over white became <<127, 255, 127, 255>>
\* next to an untouched opaque red one.
C23_Witness ==
    /\ gpc = "done"
    /\ bg_op = "blend_transparency"
    /\ bg_style = [color |-> <<255, 255, 255>>, pattern |-> None, pattern_size |-> 1]
    /\ blend_image.width = BlendLen
    /\ blend_image.pixels[<<0, 0>>] = <<0, 255, 0, 128>>
    /\ blend_image.pixels[<<1, 0>>] = <<255, 0, 0, 255>>
    /\ blend_out.pixels[<<0, 0>>] = <<127, 255, 127, 255>>
    /\ blend_out.pixels[<<1, 0>>] = <<255, 0, 0, 255>>

\* Over a checkerboard the fully transparent pixels of the first and of the
\* second tile take the pattern and the solid colour.
C23_WitnessCheckerboard ==
    /\ gpc = "done"
    /\ bg_op = "blend_transparency"
    /\ bg_style = [color |-> <<255, 255, 255>>, pattern |-> <<128, 128, 128>>,
                   pattern_size |-> 1]
    /\ blend_image.width > 4
    /\ blend_image.pixels[<<0, 0>>] = <<10, 20, 30, 0>>
    /\ blend_image.pixels[<<4, 0>>] = <<10, 20, 30, 0>>
    /\ blend_out.pixels[<<0, 0>>] = <<128, 128, 128, 255>>
    /\ blend_out.pixels[<<4, 0>>] = <<255, 255, 255, 255>>

\* Without a background the transparent pixels pass through.
C23_WitnessNoBackground ==
    /\ gpc = "done"
    /\ bg_op = "blend_transparency"
    /\ bg_style = NoBackground
    /\ blend_image.pixels[<<0, 0>>] = <<10, 20, 30, 0>>
    /\ blend_out = blend_image

\* The gray level of a colour and the largest difference of two channels.
C24_Gray(c) == (c[1] + c[2] + c[3]) \div 3

C24_MaxDiff(c) == Max(Max(abs_diff(c[1], c[2]), abs_diff(c[1], c[3])), abs_diff(c[2], c[3]))

C24_Ramp == 232..255

\* What C24 says of a colour taken for a gray if gray_rule holds of it: a
\* ramp index or the cube corner 16 (darkest) or 231 (lightest), the ramp
\* index monotone in the gray level; every other colour in the cube.
C24_Rule(is_gray) ==
    IF is_gray
    THEN /\ palette_index \in C24_Ramp \cup {16, 231}
         /\ palette_index = 16 => C24_Gray(rgb) < 4
         /\ palette_index = 231 => C24_Gray(rgb) > 247
         /\ palette_index \in C24_Ramp =>
               \A v \in 0..255 :
                   LET j == rgb_to_256(v, v, v) IN
                   j \in C24_Ramp =>
                       /\ v <= C24_Gray(rgb) => j <= palette_index
                       /\ v >= C24_Gray(rgb) => j >= palette_index
    ELSE palette_index = 16 + 36 * CubeLevel(rgb[1]) + 6 * CubeLevel(rgb[2])
                            + CubeLevel(rgb[3])

C24_Examples ==
    rgb = <<128, 128, 128>> =>
        /\ rgb_to_256(50, 50, 50) \in C24_Ramp
        /\ rgb_to_256(50, 50, 50) < palette_index
        /\ palette_index < rgb_to_256(200, 200, 200)
        /\ rgb_to_256(200, 200, 200) \in C24_Ramp

\* C24 as stated: a colour whose channels are mutually within 8 of each other
\* (no two differ by more than 8) goes to the gray ramp 232..255 or to 16 or
\* 231, monotonically in the gray level, 50 < 128 < 200 giving strictly
\* increasing indices; every other colour goes to the colour cube.
C24_GrayWithin8 ==
    qpc = "done" => (C24_Rule(C24_MaxDiff(rgb) <= 8) /\ C24_Examples)

\* C24, amended: a colour is taken for a gray when every two of its channels
\* differ by less than 8 (at most 7); it then goes to the gray ramp 232..255
\* or to 16 or 231, monotonically in the gray level, 50 < 128 < 200 giving
\* strictly increasing indices; every other colour, those with two channels
\* exactly 8 apart included, goes to the colour cube.
C24_GrayBelow8 ==
    qpc = "done" => (C24_Rule(C24_MaxDiff(rgb) < 8) /\ C24_Examples)

\* Channels 7 apart: a gray of the ramp.
C24_Witness ==
    /\ qpc = "done"
    /\ rgb = <<121, 128, 128>>
    /\ palette_index = 243

\* Channels 8 apart: the cube.
C24_WitnessCube ==
    /\ qpc = "done"
    /\ rgb = <<120, 128, 128>>
    /\ palette_index = 102

\* -------------------------------------------------------------------------
\* C25: glyph selection by minimum total error
\* -------------------------------------------------------------------------

\* Whether the quadrants take the all-present-and-similar shortcut.
C25_Shortcut(quad) ==
    /\ \A i \in 1..4 : IsSome(quad[i])
    /\ colors_similar(quad, average_colors(quad))

\* The set (foreground or background) candidate k assigns quadrant i to.
C25_SetOf(k, i) ==
    IF \E j \in 1..Len(Patterns[k].fg) : Patterns[k].fg[j] = i
    THEN Patterns[k].fg ELSE Patterns[k].bg

\* The average of the present colours of a set, None for an empty set.
C25_Average(quad, idx) ==
    LET present == SelectSeq(idx, LAMBDA i : IsSome(quad[i]))
    IN  IF present = <<>> THEN None
        ELSE average_colors([j \in 1..Len(present) |-> quad[present[j]]])

\* The Euclidean distance and the squared distance, both in hundredths.
C25_Euclidean(c1, c2) == ISqrt(10000 * SquaredDistance(c1, c2))
C25_Squared(c1, c2) == 100 * SquaredDistance(c1, c2)

\* The contribution of quadrant i to the error of candidate k.
C25_Term(quad, k, i, Dist(_, _)) ==
    IF ~IsSome(quad[i]) THEN 0
    ELSE LET target == C25_Average(quad, C25_SetOf(k, i))
         IN  IF IsSome(target) THEN Dist(quad[i], target) ELSE 10000

C25_Score(quad, k, Dist(_, _)) ==
    C25_Term(quad, k, 1, Dist) + C25_Term(quad, k, 2, Dist)
        + C25_Term(quad, k, 3, Dist) + C25_Term(quad, k, 4, Dist)

\* The first enumerated candidate among those of minimum score.
C25_First(quad, Dist(_, _)) ==
    CHOOSE k \in 1..Len(Patterns) :
        /\ \A j \in 1..Len(Patterns) : C25_Score(quad, k, Dist) <= C25_Score(quad, j, Dist)
        /\ \A j \in 1..(k - 1) : C25_Score(quad, j, Dist) > C25_Score(quad, k, Dist)

C25_Selected(quad, Dist(_, _)) ==
    LET k == C25_First(quad, Dist)
    IN  [block |-> Patterns[k].block,
         fg |-> C25_Average(quad, Patterns[k].fg),
         bg |-> C25_Average(quad, Patterns[k].bg)]

\* C25 as stated: outside the shortcut the selector returns the first
\* candidate of minimum summed squared colour distance, with its averages.
C25_MinimumSquaredError ==
    (bpc = "done" /\ ~C25_Shortcut(quadrants)) =>
        best = C25_Selected(quadrants, C25_Squared)

\* C25: outside the all-present-and-similar shortcut the selector returns,
\* with its two set averages, the first enumerated of the 12 candidates that
\* minimise the sum over the present quadrants of the Euclidean colour
\* distance to the average of the set the candidate assigns them to.
C25_MinimumError ==
    (bpc = "done" /\ ~C25_Shortcut(quadrants)) =>
        best = C25_Selected(quadrants, C25_Euclidean)

\* Two black quadrants over levels 130 and 60: the summed distances choose
\* the upper half (0 + 70), the summed squares would choose the corner.
C25_Witness ==
    /\ bpc = "done"
    /\ quadrants = <<(<<0, 0, 0>>), (<<0, 0, 0>>), (<<130, 0, 0>>), (<<60, 0, 0>>)>>
    /\ ~C25_Shortcut(quadrants)
    /\ best = [block |-> "Top", fg |-> <<0, 0, 0>>, bg |-> <<95, 0, 0>>]
    /\ C25_Selected(quadrants, C25_Squared).block = "BotLeft"

\* Red over blue: Top and Bottom both have error 0 and Top is enumerated
\* first.
C25_WitnessTie ==
    /\ bpc = "done"
    /\ quadrants = <<(<<255, 0, 0>>), (<<255, 0, 0>>), (<<0, 0, 255>>), (<<0, 0, 255>>)>>
    /\ C25_Score(quadrants, 6, C25_Euclidean) = C25_Score(quadrants, 7, C25_Euclidean)
    /\ best.block = "Top"

\* Quadrants with an absent one: the candidates whose foreground is empty
\* tie with the empty glyph, which precedes them.
C25_WitnessAbsent ==
    /\ bpc = "done"
    /\ quadrants = <<None, (<<255, 0, 0>>), (<<0, 0, 255>>), (<<255, 0, 0>>)>>
    /\ C25_Score(quadrants, 2, C25_Euclidean) = C25_Score(quadrants, 1, C25_Euclidean)
    /\ best.block = "BotLeft"

\* -------------------------------------------------------------------------
\* C26: effective scale selection on the Unicode path
\* -------------------------------------------------------------------------

C26_FracEq(a, b) == a[1] * b[2] = b[1] * a[2]

\* The width budget in pixels of the pixelation mode in use.
C26_WidthBudget ==
    IF options.pixelation = "Quarter" THEN 2 * MaxWidthCells(frame, options)
    ELSE MaxWidthCells(frame, options)

C26_Clamped(f) ==
    IF ~options.sizing.upscale /\ ~FracLe(f, FracOne) THEN FracOne ELSE f

\* The width and height factors, budget over source size, clamped to 1.0
\* when upscaling is off.
C26_WidthFactor == C26_Clamped(<<C26_WidthBudget, frame.width>>)
C26_HeightFactor == C26_Clamped(<<MaxHeightPixels(frame, options), frame.height>>)

\* C26: with fit_width the scale is the width factor alone, with fit_height
\* the height factor alone, and with neither the minimum of the two.
C26_ScaleSelection ==
    upc = "done" =>
        /\ options.sizing.fit_width => C26_FracEq(scale, C26_WidthFactor)
        /\ (~options.sizing.fit_width /\ options.sizing.fit_height) =>
              C26_FracEq(scale, C26_HeightFactor)
        /\ (~options.sizing.fit_width /\ ~options.sizing.fit_height) =>
              C26_FracEq(scale, FracMin(C26_WidthFactor, C26_HeightFactor))

\* The part of C26 the Unicode path keeps: fit_width selects the width
\* factor, and without it the scale is the minimum of the two factors
\* whatever fit_height says.
C26_FitWidthOrBoth ==
    upc = "done" =>
        C26_FracEq(scale, IF options.sizing.fit_width THEN C26_WidthFactor
                          ELSE FracMin(C26_WidthFactor, C26_HeightFactor))

\* Without fit_width the scaled image stays within the width budget and,
\* when the height budget is not zero, within the height budget rounded up
\* to whole cells.
C26_FitBothWithinBudgets ==
    (upc = "done" /\ ~options.sizing.fit_width) =>
        /\ rendered.width_cells <= MaxWidthCells(frame, options)
        /\ MaxHeightPixels(frame, options) > 0 =>
              rendered.height_cells <= (MaxHeightPixels(frame, options) + 1) \div 2

\* A 3x1 frame with fit_height at a width budget of 1 cell and a height
\* budget of 2 cells (4 pixel rows): the height factor is 4/1, the applied
\* scale 1/3.
C26_FitHeightIgnored ==
    /\ upc = "done"
    /\ options.pixelation = "Half"
    /\ options.sizing.fit_height /\ ~options.sizing.fit_width
    /\ options.sizing.upscale
    /\ frame.width = 3 /\ frame.height = 1
    /\ options.sizing.width_cells = <<1>> /\ options.sizing.height_cells = <<2>>
    /\ C26_FracEq(C26_HeightFactor, <<4, 1>>)
    /\ C26_FracEq(scale, <<1, 3>>)
    /\ rendered.width_cells = 1

\* -------------------------------------------------------------------------
\* C27: the iterator yields len() chunks that concatenate to the encoding
\* -------------------------------------------------------------------------

\* C27: next() yields the encoding in order, slice after slice; when it
\* ends it has yielded exactly len() chunks whose concatenation is the
\* base64 encoding of the payload, so the "more" test of the Kitty and
\* iTerm2 encoders (idx + 1 < len()) fails for the last yielded chunk and
\* for no other.
C27_ChunksConcatenate ==
    cpc \in {"iter", "done"} =>
        /\ Len(yielded) <= chunk_count
        /\ Concat(yielded) = SubSeq(Base64Encode(data), 1, offset)
        /\ cpc = "done" =>
              /\ Len(yielded) = chunk_count
              /\ Concat(yielded) = Base64Encode(data)
              /\ \A i \in 1..Len(yielded) :
                    /\ KittyMore(i - 1, chunk_count) <=> i # Len(yielded)
                    /\ Iterm2More(i - 1, chunk_count) <=> i # Len(yielded)

\* Seven bytes at chunk size 4: three chunks, the third the only one
\* without the flag.
C27_Witness ==
    /\ cpc = "done"
    /\ Len(data) = 7
    /\ chunk_size = 4
    /\ chunk_count = 3
    /\ Len(yielded) = 3
    /\ Concat(yielded) = encoded
    /\ KittyMore(0, chunk_count) /\ KittyMore(1, chunk_count)
    /\ ~KittyMore(2, chunk_count)

\* A payload whose encoding is exactly one chunk.
C27_WitnessSingle ==
    /\ cpc = "done"
    /\ Len(data) = 6
    /\ chunk_size = 8
    /\ chunk_count = 1
    /\ yielded = <<encoded>>
    /\ ~Iterm2More(0, chunk_count)

\* -------------------------------------------------------------------------
\* C28: the cursor-up between the frames of a playback
\* -------------------------------------------------------------------------

\* Whether the write at position p is the first write of a frame: the
\* selected frames are at least two, so successive frames differ.
C28_FrameStart(p) == p = 1 \/ stdout[p - 1].of # stdout[p].of

\* The newlines written for the frame whose writes end at position p - 1.
C28_PreviousNewlines(p) ==
    Cardinality({q \in 1..(p - 1) :
                    /\ stdout[q].kind = "nl"
                    /\ \A r \in q..(p - 1) : stdout[r].of = stdout[p - 1].of})

\* What the Unicode compositor returns: as many lines as height_cells, at
\* least one.
C28_UnicodeFrame(res) == res.ok /\ res.lines = res.height_cells /\ res.lines >= 1

\* C28: in the playback loop every line written is followed by one newline;
\* a cursor-up is written only as the first write of a frame after the
\* first, by exactly the number of newlines written for the previous frame;
\* and after a frame of the Unicode compositor the next frame starts with
\* that cursor-up.
C28_CursorUp ==
    (grid = None /\ rpc \in {"loop", "done", "error"}) =>
        \A p \in 1..Len(stdout) :
            /\ (stdout[p].kind = "line" /\ p < Len(stdout)) =>
                  /\ stdout[p + 1].kind = "nl"
                  /\ stdout[p + 1].of = stdout[p].of
            /\ stdout[p].kind = "cursor_up" =>
                  /\ p > 1
                  /\ C28_FrameStart(p)
                  /\ stdout[p].arg = C28_PreviousNewlines(p)
            /\ (p > 1 /\ C28_FrameStart(p)
                    /\ C28_UnicodeFrame(seq_frames[stdout[p - 1].of])) =>
                  stdout[p].kind = "cursor_up"
            /\ p = 1 => stdout[p].kind # "cursor_up"

\* Two passes over a one-line and a two-line frame: the cursor moves up by
\* 1 before the second frame and by 2 before the first frame of pass two.
C28_Witness ==
    /\ rpc = "done"
    /\ grid = None
    /\ current_loop = 2
    /\ seq_frames = <<RenderOk(1, 1, 1), RenderOk(2, 2, 6)>>
    /\ ~config.center
    /\ Len(stdout) = 15
    /\ stdout[1] = Entry("line", 1, 1)
    /\ stdout[3] = Entry("cursor_up", 2, 1)
    /\ stdout[8] = Entry("cursor_up", 1, 2)
    /\ stdout[11] = Entry("cursor_up", 2, 1)

\* -------------------------------------------------------------------------
\* C29: the number of passes of the playback loop
\* -------------------------------------------------------------------------

\* The frames written so far, in order: a frame's first line marks it.
C29_Rendered ==
    LET firsts == SelectSeq(stdout, LAMBDA e : e.kind = "line" /\ e.arg = 1)
    IN  [k \in 1..Len(firsts) |-> firsts[k].of]

\* The selected frames: the index before the first, and their number.
C29_Start == Min(config.frame_offset, Max(Len(seq_frames) - 1, 0))
C29_Count ==
    IF config.max_frames = None THEN Len(seq_frames) - C29_Start
    ELSE Min(config.max_frames[1], Len(seq_frames) - C29_Start)

\* Whether the loop is finite, and the passes it then makes: max(n, 1).
C29_Finite ==
    ~config.loop_forever /\ (config.loops = None \/ config.loops[1] >= 0)
C29_Passes == IF config.loops = None THEN 1 ELSE Max(config.loops[1], 1)

\* The selected frames played in order for the given number of passes.
C29_InOrder(passes) ==
    [k \in 1..(passes * C29_Count) |-> C29_Start + ((k - 1) % C29_Count) + 1]

\* The cases of C29 that do not depend on the duration limit: an empty
\* selection writes nothing, one frame is rendered once, and an endless
\* loop returns only when a duration limit is set.
C29_OtherCases ==
    /\ C29_Count = 0 => stdout = <<>>
    /\ C29_Count = 1 => C29_Rendered = <<C29_Start + 1>>
    /\ (C29_Count >= 2 /\ ~C29_Finite) => config.max_duration # None

\* C29 as stated: a finite loop that returns without error has rendered the
\* selected frames in order for exactly max(n, 1) passes.
C29_ExactPasses ==
    (grid = None /\ rpc = "done") =>
        /\ C29_OtherCases
        /\ (C29_Count >= 2 /\ C29_Finite) => C29_Rendered = C29_InOrder(C29_Passes)

\* C29: a finite loop without a duration limit that returns without error
\* has rendered the selected frames in order for exactly max(n, 1) passes;
\* with a duration limit it may return earlier, having rendered a prefix of
\* those passes; an endless loop returns only under a duration limit; one
\* selected frame is rendered once and an empty selection not at all.
C29_PassesWithinDuration ==
    (grid = None /\ rpc = "done") =>
        /\ C29_OtherCases
        /\ (C29_Count >= 2 /\ C29_Finite) =>
              /\ config.max_duration = None => C29_Rendered = C29_InOrder(C29_Passes)
              /\ Len(C29_Rendered) <= C29_Passes * C29_Count
              /\ C29_Rendered = SubSeq(C29_InOrder(C29_Passes), 1, Len(C29_Rendered))

\* Two passes over two frames with loops = 2 and no duration limit.
C29_Witness ==
    /\ rpc = "done"
    /\ grid = None
    /\ ~config.loop_forever
    /\ config.loops = <<2>>
    /\ config.max_duration = None
    /\ config.frame_offset = 1
    /\ Len(seq_frames) = 3
    /\ current_loop = 2
    /\ C29_Rendered = <<2, 3, 2, 3>>

\* loops = 0 plays one pass.
C29_WitnessZero ==
    /\ rpc = "done"
    /\ grid = None
    /\ ~config.loop_forever
    /\ config.loops = <<0>>
    /\ config.max_duration = None
    /\ C29_Count = 2
    /\ current_loop = 1
    /\ Len(C29_Rendered) = 2

\* An endless loop stopped by the duration limit after a pass and a frame.
C29_WitnessEndless ==
    /\ rpc = "done"
    /\ grid = None
    /\ config.loop_forever
    /\ config.max_duration # None
    /\ C29_Count = 2
    /\ Len(C29_Rendered) = 3

\* One selected frame under an endless loop setting: rendered once.
C29_WitnessSingle ==
    /\ rpc = "done"
    /\ grid = None
    /\ config.loop_forever
    /\ C29_Count = 1
    /\ Len(C29_Rendered) = 1

\* -------------------------------------------------------------------------
\* C30: the generation of the scroll positions
\* -------------------------------------------------------------------------

\* The clamped step of a position, as an exact integer sum.
C30_Step(v, d, range) ==
    IF d > 0 THEN (IF d >= range - v THEN range ELSE v + d)
    ELSE IF d < 0 THEN (IF d <= -v THEN 0 ELSE v + d)
    ELSE v

\* What holds of the list whatever the steps are: it starts at (0, 0), its
\* positions lie within the scroll ranges, and no two consecutive ones are
\* equal.
C30_WellFormed ==
    /\ positions # <<>> => positions[1] = <<0, 0>>
    /\ \A i \in 1..Len(positions) :
          /\ 0 <= positions[i][1] /\ positions[i][1] <= scroll_x_range
          /\ 0 <= positions[i][2] /\ positions[i][2] <= scroll_y_range
    /\ \A i \in 1..(Len(positions) - 1) : positions[i] # positions[i + 1]

\* The loop is done: the list is non-empty and its last position is a
\* fixed point of the clamped step.
C30_Finished ==
    spc = "animate" =>
        /\ positions # <<>>
        /\ LET last == positions[Len(positions)]
           IN  /\ C30_Step(last[1], scroll_dx, scroll_x_range) = last[1]
               /\ C30_Step(last[2], scroll_dy, scroll_y_range) = last[2]

\* The loop ends: it does not panic, and the list never grows beyond one
\* position per cell of the two scroll ranges.
C30_Terminates ==
    /\ spc # "panic"
    /\ Len(positions) <= scroll_x_range + scroll_y_range + 1

\* C30: for every step (dx, dy) and all scroll ranges the generation of the
\* positions terminates with a non-empty list that starts at (0, 0), stays
\* within the ranges, never repeats a position consecutively and ends in a
\* fixed point of the clamped step.
C30_ScrollPositions ==
    spc \in {"positions", "animate", "panic"} =>
        C30_WellFormed /\ C30_Finished /\ C30_Terminates

\* The same for the steps whose sum with a position stays an i32.
C30_WithoutOverflow ==
    (/\ spc \in {"positions", "animate", "panic"}
     /\ ~AddOverflows(scroll_x_range, scroll_dx)
     /\ ~AddOverflows(scroll_y_range, scroll_dy)) =>
        C30_WellFormed /\ C30_Finished /\ C30_Terminates

\* What holds even when a sum overflows.
C30_AlwaysWellFormed ==
    spc \in {"positions", "animate", "panic"} => C30_WellFormed /\ C30_Finished

\* A step of i32::MAX over a vertical range of 1 in a build that wraps: the
\* position goes 0, 1, 0, 1, ... and the list grows without end.
C30_WrapsForever ==
    /\ ~overflow_checks
    /\ scroll_dy = I32_MAX
    /\ scroll_dx = 0
    /\ scroll_y_range = 1
    /\ spc = "positions"
    /\ positions = <<(<<0, 0>>), (<<0, 1>>), (<<0, 0>>), (<<0, 1>>)>>

\* The same step in a build that checks overflow: the second sum panics.
C30_Panics ==
    /\ overflow_checks
    /\ scroll_dy = I32_MAX
    /\ scroll_dx = 0
    /\ scroll_y_range = 1
    /\ spc = "panic"
    /\ positions = <<(<<0, 0>>), (<<0, 1>>)>>

\* A negative and a small positive step: the list ends after three
\* positions.
C30_Ends ==
    /\ scroll_dx = -1
    /\ scroll_dy = 1
    /\ scroll_y_range = 2
    /\ spc = "animate"
    /\ positions = <<(<<0, 0>>), (<<0, 1>>), (<<0, 2>>)>>

============================================================================
